---- MODULE Spec2Model ----
(***************************************************************************)
(* Model of the radix-relay signal_bridge crate: the key/session store     *)
(* (sqlite_storage.rs, memory_storage.rs), the key lifecycle functions     *)
(* (key_rotation.rs, keys.rs) and the SignalBridge facade (lib.rs).        *)
(*                                                                         *)
(* Persistent state is one variable per table.  Every operation is a       *)
(* function from a store record to a result record [st, ok, n]; an action  *)
(* applies the whole operation and commits the resulting store.  A storage *)
(* call that returns Err makes the `?` operator leave the operation at     *)
(* that call: the parameter f of an operation is the number of the         *)
(* fallible storage call that fails (0: none fails).                       *)
(***************************************************************************)
EXTENDS Integers, FiniteSets, Sequences, TLC

\* ---------------------------------------------------------------- constants
MIN_PRE_KEY_COUNT == 50
REPLENISH_COUNT == 100
ROTATION_INTERVAL_SECS == 7 * 24 * 60 * 60
GRACE_PERIOD_SECS == 7 * 24 * 60 * 60
BOOTSTRAP_MIN_PRE_KEYS == 5
BOOTSTRAP_PRE_KEY_COUNT == 10
DayMs == 24 * 60 * 60 * 1000

\* ------------------------------------------------------------------- bounds
MaxPreKeyOps == 3           \* operations applied to the one-time pre-key store
MaxSignedPreKeyId == 3      \* no signed / kyber pre-key id above this
MaxNowDays == 15            \* the clock stops here
MaxFailPoint == 5           \* storage calls of one operation that may fail
MaxTimestamp == 3           \* no last_message_timestamp above this
MaxEvents == 2              \* reset_identity calls, failing storage calls and
                            \* distinct bundles handed out over a facade behaviour
InitPreKeyCounts == {0, 10, 49, 50, 51}   \* starting inventories 1..n
TickDays == {7, 8}          \* clock steps, in days
StartDays == GRACE_PERIOD_SECS \div (24 * 60 * 60)   \* the clock's first reading, in days
Addresses == {"alice", "bob"}     \* peer names; "" is the empty name
PeerIdentityKeys == {101, 102}
RegistrationIds == {7}            \* values rand::random::<u32>() returns

None == -1
\* The local_identity table without its row; in a row, private_key 0 is the
\* empty blob X'' and any other value names a generated identity key pair.
NoRow == [present |-> FALSE, registration_id |-> 0, private_key |-> 0]
FailPoints == 0..MaxFailPoint

VARIABLES
    backend,            \* "sqlite" | "memory": the SignalStorageContainer in use
    now,                \* SystemTime::now(), epoch milliseconds
    local_identity,     \* local_identity singleton row, or NoRow
    identity_keys,      \* identity_keys table: address -> peer identity key
    sessions,           \* sessions table: address -> session record
    pre_keys,           \* pre_keys table: id -> key material
    signed_pre_keys,    \* signed_pre_keys table: id -> [timestamp, material]
    kyber_pre_keys,     \* kyber_pre_keys table: id -> [timestamp, material]
    bridge,             \* "none" | "open": a SignalBridge instance exists
    last_op,            \* name of the operation that returned last
    last_result,        \* "Ok" | "Err": what it returned; "Ok(value)"
                        \* with the value of an identity store call
    last_error,         \* the SignalBridgeError it returned, "" when Ok
    contacts,           \* contacts table: its rows in rowid order
    bundle_metadata,    \* bundle_metadata singleton row: {} or {row}
    h_issued,           \* history: class -> (id -> number of keys generated with it)
    h_identities,       \* history: number of local identities generated
    h_rotation,         \* history: the last rotate_signed_pre_key
    h_prev,             \* history: key counts before the last operation
    h_ops,              \* history: number of budgeted operations applied so far
    h_published,        \* history: the bundles generate_pre_key_bundle returned
    h_failures,         \* history: number of storage calls that returned Err
    h_handshakes,       \* history: <<id, material>> of a one-time pre-key ->
                        \* number of first-contact messages accepted with it
    storage,            \* the SqliteStorage / MemoryStorage object: [is_closed,
                        \* stores (the five store handles are Some), dropped]
    settings            \* settings table: key -> value (TEXT)

vars == <<backend, now, local_identity, identity_keys, sessions, pre_keys,
          signed_pre_keys, kyber_pre_keys, bridge, last_op, last_result,
          h_issued, h_identities, h_rotation, h_prev, h_ops, h_published, h_failures,
          last_error, contacts, bundle_metadata, h_handshakes, storage, settings>>

\* ------------------------------------------------------------------ helpers
Max(S) == CHOOSE x \in S : \A y \in S : y <= x
Min(S) == CHOOSE x \in S : \A y \in S : x <= y
Put(f, k, v) == [x \in DOMAIN f \cup {k} |-> IF x = k THEN v ELSE f[x]]
Remove(f, k) == [x \in DOMAIN f \ {k} |-> f[x]]
EmptyMap == [x \in {} |-> 0]
Issued(s, class, id) == IF id \in DOMAIN s.h_issued[class] THEN s.h_issued[class][id] ELSE 0

\* The storage object after new() and initialize().
Initialized == [is_closed |-> FALSE, stores |-> TRUE, dropped |-> FALSE]

\* The persistent store as one record, and its commit to the variables.
Store ==
    [local_identity |-> local_identity, identity_keys |-> identity_keys,
     sessions |-> sessions, pre_keys |-> pre_keys,
     signed_pre_keys |-> signed_pre_keys, kyber_pre_keys |-> kyber_pre_keys,
     contacts |-> contacts, bundle_metadata |-> bundle_metadata,
     h_issued |-> h_issued, h_identities |-> h_identities,
     h_handshakes |-> h_handshakes]

Commit(s) ==
    /\ local_identity' = s.local_identity
    /\ identity_keys' = s.identity_keys
    /\ sessions' = s.sessions
    /\ pre_keys' = s.pre_keys
    /\ signed_pre_keys' = s.signed_pre_keys
    /\ kyber_pre_keys' = s.kyber_pre_keys
    /\ contacts' = s.contacts
    /\ bundle_metadata' = s.bundle_metadata
    /\ h_issued' = s.h_issued
    /\ h_identities' = s.h_identities
    /\ h_handshakes' = s.h_handshakes

\* Sequencing of fallible calls: r = [st, ok, n], n counts the storage calls
\* made so far; call number f returns Err and `?` returns from the operation.
\* err is the error an operation returns with; a storage call that fails
\* makes it SignalBridgeError::Storage.
Start(s) == [st |-> s, ok |-> TRUE, n |-> 0, err |-> ""]
Fail(r, e) == IF r.ok THEN [r EXCEPT !.ok = FALSE, !.err = e] ELSE r
Call(r, f, F(_)) ==
    IF ~r.ok THEN r
    ELSE IF r.n + 1 = f THEN [r EXCEPT !.ok = FALSE, !.n = @ + 1, !.err = "Storage"]
    ELSE [r EXCEPT !.st = F(r.st), !.n = @ + 1]
Counts(s) ==
    [pre |-> Cardinality(DOMAIN s.pre_keys),
     signed |-> Cardinality(DOMAIN s.signed_pre_keys),
     kyber |-> Cardinality(DOMAIN s.kyber_pre_keys)]
\* Call number f was reached and returned Err.
Failed(r, f) == f # 0 /\ ~r.ok /\ r.n = f
Returned(op, r) ==
    /\ last_op' = op
    /\ last_result' = IF r.ok THEN "Ok" ELSE "Err"
    /\ last_error' = IF r.ok THEN "" ELSE r.err
    /\ h_prev' = Counts(Store)

\* ------------------------------------------------- one-time pre-key store
pre_key_count(s) == Cardinality(DOMAIN s.pre_keys)
get_max_pre_key_id(s) == IF DOMAIN s.pre_keys = {} THEN None ELSE Max(DOMAIN s.pre_keys)
delete_pre_key(s, id) == [s EXCEPT !.pre_keys = Remove(@, id)]
\* Variant that deletes the key and every key with a higher id.
remove_pre_key_and_newer(s, id) == [s EXCEPT !.pre_keys = [x \in {y \in DOMAIN @ : y < id} |-> @[x]]]
remove_pre_key(s, id) == [s EXCEPT !.pre_keys = Remove(@, id)]
\* INSERT OR REPLACE of freshly generated key pairs: the material of a key
\* is the number of keys generated with its id so far.
save_pre_keys(s, ids) ==
    LET issued == [x \in DOMAIN s.h_issued["pre"] \cup ids |->
                      IF x \in ids THEN Issued(s, "pre", x) + 1
                      ELSE s.h_issued["pre"][x]]
    IN  [s EXCEPT !.h_issued["pre"] = issued,
                  !.pre_keys = [x \in DOMAIN s.pre_keys \cup ids |->
                                   IF x \in ids THEN issued[x] ELSE s.pre_keys[x]]]
save_pre_key(s, id) == save_pre_keys(s, {id})
clear_all_pre_keys(s) == [s EXCEPT !.pre_keys = EmptyMap]

\* Variant whose first id is start_id + 1.
generate_pre_keys_after(start_id, count) == [i \in 1..count |-> start_id + i]

\* keys.rs generate_pre_keys: ids start_id, start_id + 1, ..., one per key.
generate_pre_keys(start_id, count) == [i \in 1..count |-> start_id + (i - 1)]

\* for (key_id, key_pair) in &new_pre_keys { save_pre_key(..).await? }
\* The saves are storage calls r.n + 1 .. r.n + Len(ids); when call f is one
\* of them the loop stops there with the earlier keys saved.
SavePreKeys(r, f, ids) ==
    IF ~r.ok THEN r
    ELSE LET fails == f > r.n /\ f <= r.n + Len(ids)
             done == IF fails THEN f - r.n - 1 ELSE Len(ids)
         IN  [st |-> save_pre_keys(r.st, {ids[i] : i \in 1..done}),
              ok |-> ~fails,
              n |-> IF fails THEN f ELSE r.n + Len(ids),
              err |-> IF fails THEN "Storage" ELSE r.err]

\* Variant that numbers the new keys from the inventory count.
replenish_pre_keys_from_count(r, f) ==
    LET r1 == Call(r, f, LAMBDA s : s)
    IN  SavePreKeys(r1, f, generate_pre_keys(pre_key_count(r.st) + 1, REPLENISH_COUNT))

replenish_pre_keys(r, f) ==
    LET r1 == Call(r, f, LAMBDA s : s)     \* get_max_pre_key_id().await?
        max_id == get_max_pre_key_id(r.st)
        next_id == IF max_id = None THEN 1 ELSE max_id + 1
    IN  SavePreKeys(r1, f, generate_pre_keys(next_id, REPLENISH_COUNT))

\* Variant that counts the inventory before the key is deleted.
consume_pre_key_counts_first(s, pre_key_id, f) ==
    LET r1 == Call(Start(s), f, LAMBDA t : delete_pre_key(t, pre_key_id))
    IN  IF r1.ok /\ pre_key_count(s) < MIN_PRE_KEY_COUNT
        THEN replenish_pre_keys(r1, f)
        ELSE r1

consume_pre_key(s, pre_key_id, f) ==
    LET r1 == Call(Start(s), f, LAMBDA t : delete_pre_key(t, pre_key_id))
    IN  IF r1.ok /\ pre_key_count(r1.st) < MIN_PRE_KEY_COUNT
        THEN replenish_pre_keys(r1, f)
        ELSE r1

\* ------------------------------------- signed and kyber pre-key stores
\* tbl is "signed_pre_keys" or "kyber_pre_keys", class "signed" or "kyber".
\* A row keeps the record's timestamp (epoch millis) and, as the SQLite
\* column created_at, that timestamp in whole seconds.
key_count(s, tbl) == Cardinality(DOMAIN s[tbl])
get_max_key_id(s, tbl) == IF DOMAIN s[tbl] = {} THEN None ELSE Max(DOMAIN s[tbl])
delete_key(s, tbl, id) == [s EXCEPT ![tbl] = Remove(@, id)]
save_key(s, tbl, class, id, timestamp_millis, signer) ==
    [s EXCEPT !.h_issued[class] = Put(@, id, Issued(s, class, id) + 1),
              ![tbl] = Put(@, id, [timestamp |-> timestamp_millis,
                                   created_at |-> timestamp_millis \div 1000,
                                   material |-> Issued(s, class, id) + 1,
                                   signer |-> signer])]

signed_pre_key_count(s) == key_count(s, "signed_pre_keys")
get_max_signed_pre_key_id(s) == get_max_key_id(s, "signed_pre_keys")
delete_signed_pre_key(s, id) == delete_key(s, "signed_pre_keys", id)
save_signed_pre_key(s, id, ts, signer) == save_key(s, "signed_pre_keys", "signed", id, ts, signer)
clear_all_signed_pre_keys(s) == [s EXCEPT !.signed_pre_keys = EmptyMap]
kyber_pre_key_count(s) == key_count(s, "kyber_pre_keys")
get_max_kyber_pre_key_id(s) == get_max_key_id(s, "kyber_pre_keys")
delete_kyber_pre_key(s, id) == delete_key(s, "kyber_pre_keys", id)
save_kyber_pre_key(s, id, ts, signer) == save_key(s, "kyber_pre_keys", "kyber", id, ts, signer)
clear_all_kyber_pre_keys(s) == [s EXCEPT !.kyber_pre_keys = EmptyMap]

\* The ids older than the cutoff.  SQLite compares the created_at column
\* (seconds) with the cutoff in whole seconds; the in-memory store compares
\* the record's timestamp in milliseconds.
keys_older_than(be, s, tbl, timestamp_millis) ==
    IF be = "sqlite"
    THEN {id \in DOMAIN s[tbl] : s[tbl][id].created_at < timestamp_millis \div 1000}
    ELSE {id \in DOMAIN s[tbl] : s[tbl][id].timestamp < timestamp_millis}

\* The Vec the store returns: SQLite scans the table in rowid (= id) order,
\* the in-memory store iterates a HashMap, whose order is arbitrary.
Perms(S) == {q \in [1..Cardinality(S) -> S] : \A i, j \in 1..Cardinality(S) : q[i] = q[j] => i = j}
Ascending(S) == CHOOSE q \in Perms(S) : \A i, j \in 1..Cardinality(S) : i < j => q[i] < q[j]
get_keys_older_than(be, s, tbl, timestamp_millis) ==
    LET ids == keys_older_than(be, s, tbl, timestamp_millis)
    IN  IF be = "sqlite" THEN {Ascending(ids)} ELSE Perms(ids)
get_signed_pre_keys_older_than(be, s, ts) == get_keys_older_than(be, s, "signed_pre_keys", ts)
get_kyber_pre_keys_older_than(be, s, ts) == get_keys_older_than(be, s, "kyber_pre_keys", ts)

\* ------------------------------------------------------- key_rotation.rs
rotate_signed_pre_key(s, identity_key_pair, t, f) ==
    LET r1 == Call(Start(s), f, LAMBDA u : u)     \* get_max_signed_pre_key_id
        max_id == get_max_signed_pre_key_id(s)
        current_max_id == IF max_id = None THEN 0 ELSE max_id
    IN  Call(r1, f, LAMBDA u : save_signed_pre_key(u, current_max_id + 1, t, identity_key_pair))

rotate_kyber_pre_key(s, identity_key_pair, t, f) ==
    LET r1 == Call(Start(s), f, LAMBDA u : u)     \* get_max_kyber_pre_key_id
        max_id == get_max_kyber_pre_key_id(s)
        current_max_id == IF max_id = None THEN 0 ELSE max_id
    IN  Call(r1, f, LAMBDA u : save_kyber_pre_key(u, current_max_id + 1, t, identity_key_pair))

\* Variant that reads the age of the key with the lowest id.
signed_pre_key_needs_rotation_of_oldest(s, t) ==
    LET max_id == get_max_signed_pre_key_id(s)
    IN  IF max_id = None THEN TRUE
        ELSE (t - s.signed_pre_keys[Min(DOMAIN s.signed_pre_keys)].timestamp) \div 1000
                 > ROTATION_INTERVAL_SECS

\* Ok(true) / Ok(false); the reads are not failed here.
signed_pre_key_needs_rotation(s, t) ==
    LET max_id == get_max_signed_pre_key_id(s)
    IN  IF max_id = None THEN TRUE
        ELSE (t - s.signed_pre_keys[max_id].timestamp) \div 1000 > ROTATION_INTERVAL_SECS

kyber_pre_key_needs_rotation(s, t) ==
    LET max_id == get_max_kyber_pre_key_id(s)
    IN  IF max_id = None THEN TRUE
        ELSE (t - s.kyber_pre_keys[max_id].timestamp) \div 1000 > ROTATION_INTERVAL_SECS

\* for id in expired_ids { if count().await > 1 { delete(id).await? } }
RECURSIVE DeleteWhileMoreThanOne(_, _, _, _, _)
DeleteWhileMoreThanOne(r, f, tbl, expired_ids, i) ==
    IF i > Len(expired_ids) \/ ~r.ok THEN r
    ELSE IF key_count(r.st, tbl) > 1
         THEN DeleteWhileMoreThanOne(
                  Call(r, f, LAMBDA u : delete_key(u, tbl, expired_ids[i])),
                  f, tbl, expired_ids, i + 1)
         ELSE DeleteWhileMoreThanOne(r, f, tbl, expired_ids, i + 1)

\* Variant of the loop that deletes every expired id without counting what
\* is left; cleanup_expired_signed_pre_keys_unguarded uses it.
RECURSIVE DeleteAll(_, _, _, _, _)
DeleteAll(r, f, tbl, expired_ids, i) ==
    IF i > Len(expired_ids) \/ ~r.ok THEN r
    ELSE DeleteAll(Call(r, f, LAMBDA u : delete_key(u, tbl, expired_ids[i])),
                   f, tbl, expired_ids, i + 1)

cleanup_cutoff(t) == t - (GRACE_PERIOD_SECS * 1000)

\* Variant of the cleanup without the count guard in its loop.
cleanup_expired_signed_pre_keys_unguarded(s, expired_ids, f) ==
    LET r1 == Call(Start(s), f, LAMBDA u : u)
    IN  IF ~r1.ok \/ signed_pre_key_count(s) <= 1 THEN r1
        ELSE DeleteAll(r1, f, "signed_pre_keys", expired_ids, 1)

\* expired_ids is the Vec get_signed_pre_keys_older_than(cutoff) returned;
\* the action draws it from the orders the backend can return.
cleanup_expired_signed_pre_keys(s, expired_ids, f) ==
    LET r1 == Call(Start(s), f, LAMBDA u : u)     \* get_signed_pre_keys_older_than
    IN  IF ~r1.ok \/ signed_pre_key_count(s) <= 1 THEN r1
        ELSE DeleteWhileMoreThanOne(r1, f, "signed_pre_keys", expired_ids, 1)

cleanup_expired_kyber_pre_keys(s, expired_ids, f) ==
    LET r1 == Call(Start(s), f, LAMBDA u : u)     \* get_kyber_pre_keys_older_than
    IN  IF ~r1.ok \/ kyber_pre_key_count(s) <= 1 THEN r1
        ELSE DeleteWhileMoreThanOne(r1, f, "kyber_pre_keys", expired_ids, 1)

\* ------------------------------------------- identity and session stores
\* SqliteIdentityStore.  get_identity_key_pair is Ok(key) only for a row
\* whose private_key blob deserializes; Err otherwise.
has_identity_key_pair(s) == s.local_identity.present /\ s.local_identity.private_key # 0
get_identity_key_pair(s) == IF has_identity_key_pair(s) THEN s.local_identity.private_key ELSE None
set_local_identity_key_pair(s, key) ==
    [s EXCEPT !.local_identity =
        [present |-> TRUE, private_key |-> key,
         registration_id |-> IF @.present THEN @.registration_id ELSE 0]]
set_local_registration_id(s, reg) ==
    [s EXCEPT !.local_identity =
        [present |-> TRUE, registration_id |-> reg,
         private_key |-> IF @.present THEN @.private_key ELSE 0]]
clear_local_identity(s) == [s EXCEPT !.local_identity = NoRow]
identity_count(s) == Cardinality(DOMAIN s.identity_keys)
get_peer_identity(s, address) == IF address \in DOMAIN s.identity_keys THEN s.identity_keys[address] ELSE None
save_identity(s, address, key) == [s EXCEPT !.identity_keys = Put(@, address, key)]
is_trusted_identity(s, address, key) == get_peer_identity(s, address) \in {None, key}
delete_identity(s, address) == [s EXCEPT !.identity_keys = Remove(@, address)]
clear_all_identities(s) == [s EXCEPT !.identity_keys = EmptyMap]
session_count(s) == Cardinality(DOMAIN s.sessions)
\* load_session returns Some(record) exactly for the addresses of has_session.
has_session(s, address) == address \in DOMAIN s.sessions
load_session(s, address) == s.sessions[address]
store_session(s, address, record) == [s EXCEPT !.sessions = Put(@, address, record)]
delete_session(s, address) == [s EXCEPT !.sessions = Remove(@, address)]
session_clear_all_sessions(s) == [s EXCEPT !.sessions = EmptyMap]

\* ------------------------------- IdentityKeyStore of the two backends
\* An address is <<name, device_id>>.  SQLite keeps a row per (address,
\* device_id), the primary key; the memory store keeps a HashMap entry per
\* address_key.  None stands for Ok(None).  The statements are not failed
\* here.
address_key(address) == address[1] \o ":" \o ToString(address[2])

sqlite_get_identity(s, address) ==
    IF address \in DOMAIN s.identity_keys THEN s.identity_keys[address] ELSE None
memory_get_identity(s, address) ==
    LET key == address_key(address)
    IN  IF key \in DOMAIN s.identity_keys THEN s.identity_keys[key] ELSE None

sqlite_is_trusted_identity(s, address, identity_key) ==
    LET stored_identity == sqlite_get_identity(s, address)
    IN  IF stored_identity = None THEN TRUE ELSE stored_identity = identity_key
\* Variant without trust on first use.
memory_is_trusted_identity_known_only(s, address, identity_key) ==
    LET key == address_key(address)
    IN  IF key \in DOMAIN s.identity_keys THEN s.identity_keys[key] = identity_key ELSE FALSE
memory_is_trusted_identity(s, address, identity_key) ==
    LET key == address_key(address)
    IN  IF key \in DOMAIN s.identity_keys THEN s.identity_keys[key] = identity_key ELSE TRUE

\* Variant that reports ReplacedExisting for every row it overwrites.
sqlite_save_identity_any_row(s, address, identity_key) ==
    LET change_type ==
            IF address \in DOMAIN s.identity_keys THEN "ReplacedExisting"
            ELSE "NewOrUnchanged"
    IN  [st |-> [s EXCEPT !.identity_keys = Put(@, address, identity_key)],
         change |-> change_type]
\* SELECT the existing row, decide the change, then INSERT OR REPLACE.
sqlite_save_identity(s, address, identity_key) ==
    LET change_type ==
            IF address \in DOMAIN s.identity_keys
            THEN IF s.identity_keys[address] = identity_key
                 THEN "NewOrUnchanged" ELSE "ReplacedExisting"
            ELSE "NewOrUnchanged"
    IN  [st |-> [s EXCEPT !.identity_keys = Put(@, address, identity_key)],
         change |-> change_type]
\* get_identity(..).ok().flatten(), insert, then match on the old entry.
memory_save_identity(s, address, identity_key) ==
    LET existing == memory_get_identity(s, address)
        key == address_key(address)
    IN  [st |-> [s EXCEPT !.identity_keys = Put(@, key, identity_key)],
         change |-> IF existing # None /\ existing # identity_key THEN "ReplacedExisting"
                    ELSE "NewOrUnchanged"]

\* The local identity of the two backends.  SQLite keeps the singleton row
\* of local_identity, whose missing column a setter fills with 0 or X'';
\* the memory store keeps two Options, kept here in the same record: a
\* private_key of 0 and a registration_id of None stand for Option::None.
\* A read returns [ok, value, err], err being the message of the
\* SignalProtocolError::InvalidState it fails with.
sqlite_get_identity_key_pair(s) ==
    IF ~s.local_identity.present
    THEN [ok |-> FALSE, value |-> None, err |-> "Local identity key pair not set"]
    ELSE IF s.local_identity.private_key = 0
    THEN [ok |-> FALSE, value |-> None, err |-> "Failed to deserialize identity key pair"]
    ELSE [ok |-> TRUE, value |-> s.local_identity.private_key, err |-> ""]
sqlite_get_local_registration_id(s) ==
    IF ~s.local_identity.present
    THEN [ok |-> FALSE, value |-> None, err |-> "Local registration ID not set"]
    ELSE [ok |-> TRUE, value |-> s.local_identity.registration_id, err |-> ""]
memory_get_identity_key_pair(s) ==
    IF s.local_identity.private_key = 0
    THEN [ok |-> FALSE, value |-> None, err |-> "Local identity key pair not set"]
    ELSE [ok |-> TRUE, value |-> s.local_identity.private_key, err |-> ""]
memory_get_local_registration_id(s) ==
    IF ~s.local_identity.present \/ s.local_identity.registration_id = None
    THEN [ok |-> FALSE, value |-> None, err |-> "Local registration ID not set"]
    ELSE [ok |-> TRUE, value |-> s.local_identity.registration_id, err |-> ""]
memory_set_local_identity_key_pair(s, key) ==
    [s EXCEPT !.local_identity =
        [present |-> TRUE, private_key |-> key,
         registration_id |-> IF @.present THEN @.registration_id ELSE None]]
memory_set_local_registration_id(s, reg) ==
    [s EXCEPT !.local_identity =
        [present |-> TRUE, registration_id |-> reg,
         private_key |-> IF @.present THEN @.private_key ELSE 0]]
memory_clear_local_identity(s) == [s EXCEPT !.local_identity = NoRow]

\* The identity store of the container in use.
identity_store_get_identity(be, s, address) ==
    IF be = "sqlite" THEN sqlite_get_identity(s, address) ELSE memory_get_identity(s, address)
identity_store_is_trusted_identity(be, s, address, identity_key) ==
    IF be = "sqlite" THEN sqlite_is_trusted_identity(s, address, identity_key)
    ELSE memory_is_trusted_identity(s, address, identity_key)
identity_store_save_identity(be, s, address, identity_key) ==
    IF be = "sqlite" THEN sqlite_save_identity(s, address, identity_key)
    ELSE memory_save_identity(s, address, identity_key)
identity_store_get_identity_key_pair(be, s) ==
    IF be = "sqlite" THEN sqlite_get_identity_key_pair(s) ELSE memory_get_identity_key_pair(s)
identity_store_get_local_registration_id(be, s) ==
    IF be = "sqlite" THEN sqlite_get_local_registration_id(s)
    ELSE memory_get_local_registration_id(s)
identity_store_set_local_identity_key_pair(be, s, key) ==
    IF be = "sqlite" THEN set_local_identity_key_pair(s, key)
    ELSE memory_set_local_identity_key_pair(s, key)
identity_store_set_local_registration_id(be, s, reg) ==
    IF be = "sqlite" THEN set_local_registration_id(s, reg)
    ELSE memory_set_local_registration_id(s, reg)
identity_store_clear_local_identity(be, s) ==
    IF be = "sqlite" THEN clear_local_identity(s) ELSE memory_clear_local_identity(s)

\* ------------------------------------------- the storage object itself
\* SqliteStorage::new leaves the five store handles None until initialize;
\* close drops them again and sets is_closed.  pragma_fails: PRAGMA optimize
\* returns Err.  MemoryStorage has plain fields and no closed flag.
sqlite_storage_new == [is_closed |-> FALSE, stores |-> FALSE, dropped |-> FALSE]
sqlite_initialize(h) == [h EXCEPT !.stores = TRUE]
\* Variant that runs the pragmas on a closed store too.
sqlite_close_again(h, pragma_fails) ==
    IF pragma_fails THEN [h |-> h, ok |-> FALSE]
    ELSE [h |-> [h EXCEPT !.is_closed = TRUE, !.stores = FALSE], ok |-> TRUE]
sqlite_close(h, pragma_fails) ==
    IF h.is_closed THEN [h |-> h, ok |-> TRUE]
    ELSE IF pragma_fails THEN [h |-> h, ok |-> FALSE]
    ELSE [h |-> [h EXCEPT !.is_closed = TRUE, !.stores = FALSE], ok |-> TRUE]
memory_initialize(h) == h
memory_close(h) == [h |-> h, ok |-> TRUE]
storage_initialize(be, h) ==
    IF be = "sqlite" THEN sqlite_initialize(h) ELSE memory_initialize(h)
storage_close(be, h, pragma_fails) ==
    IF be = "sqlite" THEN sqlite_close(h, pragma_fails) ELSE memory_close(h)
\* impl Drop for SignalBridge: close unless closed, an Err is only logged.
drop(h, pragma_fails) ==
    [(IF ~h.is_closed THEN sqlite_close(h, pragma_fails).h ELSE h) EXCEPT !.dropped = TRUE]
\* The store accessors panic on a closed or uninitialized SqliteStorage.
stores_usable(h) == ~h.is_closed /\ h.stores /\ ~h.dropped

\* settings: value is TEXT, the decimal digits of the u64; a missing row
\* reads as 0.  parse gives back the u64 whose digits the text is.
parse_u64(value_str) == CHOOSE n \in 0..MaxTimestamp : ToString(n) = value_str
get_last_message_timestamp(tbl) ==
    IF "last_message_timestamp" \in DOMAIN tbl
    THEN parse_u64(tbl["last_message_timestamp"]) ELSE 0
set_last_message_timestamp(tbl, timestamp) ==
    Put(tbl, "last_message_timestamp", ToString(timestamp))

\* ------------------------------------------------------------ lib.rs facade
\* ensure_keys_exist continues the call sequence r.  reg is the value
\* rand::random::<u32>() returns, t the clock reading.
ensure_keys_exist(r, t, reg, f) ==
    LET existing == get_identity_key_pair(r.st)
        new_identity == r.st.h_identities + 1
        identity_key_pair == IF existing # None THEN existing ELSE new_identity
        r1 == IF existing # None THEN r
              ELSE Call(Call(r, f, LAMBDA u : [set_local_identity_key_pair(u, new_identity)
                                               EXCEPT !.h_identities = new_identity]),
                        f, LAMBDA u : set_local_registration_id(u, reg))
        r2 == IF r1.ok /\ pre_key_count(r1.st) < BOOTSTRAP_MIN_PRE_KEYS
              THEN SavePreKeys(r1, f, generate_pre_keys(1, BOOTSTRAP_PRE_KEY_COUNT))
              ELSE r1
        r3 == IF r2.ok /\ signed_pre_key_count(r2.st) = 0
              THEN Call(r2, f, LAMBDA u : save_signed_pre_key(u, 1, t, identity_key_pair))
              ELSE r2
        r4 == IF r3.ok /\ kyber_pre_key_count(r3.st) = 0
              THEN Call(r3, f, LAMBDA u : save_kyber_pre_key(u, 1, t, identity_key_pair))
              ELSE r3
    IN  r4

\* SignalBridge::clear_all_sessions, continuing the call sequence r.
clear_all_sessions(r, f) ==
    IF r.ok /\ (session_count(r.st) > 0 \/ identity_count(r.st) > 0)
    THEN Call(Call(r, f, LAMBDA u : session_clear_all_sessions(u)),
              f, LAMBDA u : clear_all_identities(u))
    ELSE r

cleanup_all_sessions(r, f) ==
    IF r.ok /\ session_count(r.st) > 0
    THEN Call(r, f, LAMBDA u : session_clear_all_sessions(u))
    ELSE r

\* delete_session, then delete_identity when get_peer_identity(..).is_ok():
\* Ok(None) is Ok too, so the delete runs whether or not a row exists.
clear_peer_session(r, peer, f) ==
    IF peer = "" THEN [r EXCEPT !.ok = FALSE]
    ELSE Call(Call(r, f, LAMBDA u : delete_session(u, peer)),
              f, LAMBDA u : delete_identity(u, peer))

\* Variant that leaves the signed pre-keys of the old identity in place.
reset_identity_keeps_signed_pre_keys(r, t, reg, f) ==
    LET r1 == clear_all_sessions(r, f)
        r2 == Call(r1, f, LAMBDA u : clear_all_pre_keys(u))
        r4 == Call(r2, f, LAMBDA u : clear_all_kyber_pre_keys(u))
        r5 == Call(r4, f, LAMBDA u : clear_local_identity(u))
    IN  ensure_keys_exist(r5, t, reg, f)

reset_identity(r, t, reg, f) ==
    LET r1 == clear_all_sessions(r, f)
        r2 == Call(r1, f, LAMBDA u : clear_all_pre_keys(u))
        r3 == Call(r2, f, LAMBDA u : clear_all_signed_pre_keys(u))
        r4 == Call(r3, f, LAMBDA u : clear_all_kyber_pre_keys(u))
        r5 == Call(r4, f, LAMBDA u : clear_local_identity(u))
    IN  ensure_keys_exist(r5, t, reg, f)

\* libsignal process_prekey_bundle as establish_session_from_bundle calls it:
\* trust check, signature checks, then save_identity and store_session.
establish_session_from_bundle(r, address, bundle, f) ==
    IF ~is_trusted_identity(r.st, address, bundle.identity_key)
       \/ ~bundle.signed_pre_key_signature_ok
       \/ ~bundle.kyber_pre_key_signature_ok
    THEN [r EXCEPT !.ok = FALSE]
    ELSE Call(Call(r, f, LAMBDA u : save_identity(u, address, bundle.identity_key)),
              f, LAMBDA u : store_session(u, address,
                                [remote_identity |-> bundle.identity_key, base |-> {}]))

establish_session(r, peer, bundle, f) ==
    IF peer = "" \/ ~bundle.wellformed THEN [r EXCEPT !.ok = FALSE]
    ELSE IF bundle.pre_key_public_missing THEN Fail(r, "panic")
    ELSE establish_session_from_bundle(r, peer, bundle, f)

\* The bundle generate_pre_key_bundle builds: always pre-key 1, signed
\* pre-key 1 and kyber pre-key 1.  {} when one of the reads returns Err.
generate_pre_key_bundle(s) ==
    IF /\ has_identity_key_pair(s)
       /\ 1 \in DOMAIN s.pre_keys
       /\ 1 \in DOMAIN s.signed_pre_keys
       /\ 1 \in DOMAIN s.kyber_pre_keys
    THEN {[identity_key |-> get_identity_key_pair(s),
           registration_id |-> s.local_identity.registration_id,
           pre_key_id |-> 1, pre_key |-> s.pre_keys[1],
           signed_pre_key_id |-> 1, signed_pre_key |-> s.signed_pre_keys[1].material,
           signed_pre_key_signer |-> s.signed_pre_keys[1].signer,
           kyber_pre_key_id |-> 1, kyber_pre_key |-> s.kyber_pre_keys[1].material,
           kyber_pre_key_signer |-> s.kyber_pre_keys[1].signer]}
    ELSE {}

\* A PreKeySignalMessage built by `sender` on the published bundle b opens
\* only with the private keys b was made of.
prekeys_match(s, b) ==
    /\ get_identity_key_pair(s) = b.identity_key
    /\ b.signed_pre_key_id \in DOMAIN s.signed_pre_keys
    /\ s.signed_pre_keys[b.signed_pre_key_id].material = b.signed_pre_key
    /\ b.kyber_pre_key_id \in DOMAIN s.kyber_pre_keys
    /\ s.kyber_pre_keys[b.kyber_pre_key_id].material = b.kyber_pre_key
    /\ b.pre_key_id \in DOMAIN s.pre_keys
    /\ s.pre_keys[b.pre_key_id] = b.pre_key

\* A PreKeySignalMessage is a first contact unless the session at the
\* address already came from the same sender's same handshake.
is_first_contact(s, address, m) ==
    /\ m.kind = "prekey"
    /\ ~(/\ has_session(s, address)
         /\ load_session(s, address).base = m.bundle
         /\ load_session(s, address).remote_identity = m.sender)

\* Variant that leaves the one-time pre-key of the handshake in the store.
storage_decrypt_message_keeps_pre_key(r, address, m, dup_ok, f) ==
    LET session == load_session(r.st, address)
    IN  IF m.kind = "prekey"
        THEN LET b == CHOOSE x \in m.bundle : TRUE
             IN  IF ~is_trusted_identity(r.st, address, m.sender) THEN [r EXCEPT !.ok = FALSE]
                 ELSE IF ~is_first_contact(r.st, address, m)
                 THEN [r EXCEPT !.ok = dup_ok]
                 ELSE IF ~prekeys_match(r.st, b) THEN [r EXCEPT !.ok = FALSE]
                 ELSE Call(Call(r, f, LAMBDA u : save_identity(u, address, m.sender)),
                           f, LAMBDA u : store_session(u, address,
                               [remote_identity |-> m.sender, base |-> m.bundle]))
        ELSE IF has_session(r.st, address) /\ session.remote_identity = m.sender
                /\ is_trusted_identity(r.st, address, m.sender)
             THEN [r EXCEPT !.ok = dup_ok]
             ELSE [r EXCEPT !.ok = FALSE]

\* libsignal message_decrypt as SqliteStorage::decrypt_message calls it.
\* dup_ok: whether a further message of an already processed pre-key
\* session opens (a new message does, a replayed one does not).
storage_decrypt_message(r, address, m, dup_ok, f) ==
    LET session == load_session(r.st, address)
    IN  IF m.kind = "prekey"
        THEN LET b == CHOOSE x \in m.bundle : TRUE
             IN  IF ~is_trusted_identity(r.st, address, m.sender) THEN [r EXCEPT !.ok = FALSE]
                 ELSE IF ~is_first_contact(r.st, address, m)
                 THEN [r EXCEPT !.ok = dup_ok]
                 ELSE IF ~prekeys_match(r.st, b) THEN [r EXCEPT !.ok = FALSE]
                 ELSE Call(Call(Call(r, f, LAMBDA u : save_identity(u, address, m.sender)),
                                f, LAMBDA u : store_session(u, address,
                                    [remote_identity |-> m.sender, base |-> m.bundle])),
                           f, LAMBDA u : remove_pre_key(u, b.pre_key_id))
        ELSE IF has_session(r.st, address) /\ session.remote_identity = m.sender
                /\ is_trusted_identity(r.st, address, m.sender)
             THEN [r EXCEPT !.ok = dup_ok]
             ELSE [r EXCEPT !.ok = FALSE]

\* ----------------------------------------------------------------- contacts
\* A contacts row: [rdx_fingerprint, nostr_pubkey, user_alias, signal_identity_key,
\* first_seen, last_updated]; user_alias is {} for NULL or {alias}.  Both
\* the fingerprint and the nostr pubkey are digests of the identity key.
generate_identity_fingerprint_from_key(identity_key) == "RDX:" \o ToString(identity_key)
derive_public_key_from_peer_identity(identity_key) == "npub" \o ToString(identity_key)

RowsWhere(s, P(_)) == {i \in 1..Len(s.contacts) : P(s.contacts[i])}
FirstRow(s, rows) == IF rows = {} THEN {} ELSE {s.contacts[Min(rows)]}

\* INSERT OR REPLACE INTO contacts: the rows that conflict on the primary key
\* rdx_fingerprint or on the UNIQUE nostr_pubkey go, and the new row gets
\* the next rowid.  user_alias carries no constraint (initialize_schema).
insert_or_replace_contact(s, row) ==
    [s EXCEPT !.contacts =
        Append(SelectSeq(@, LAMBDA c : /\ c.rdx_fingerprint # row.rdx_fingerprint
                                        /\ c.nostr_pubkey # row.nostr_pubkey),
               row)]

add_contact_from_bundle(r, t, bundle, user_alias, f) ==
    IF ~bundle.wellformed THEN Fail(r, "InvalidInput(Failed to deserialize bundle)")
    ELSE LET rdx == generate_identity_fingerprint_from_key(bundle.identity_key)
             secs == t \div 1000
             old == FirstRow(r.st, RowsWhere(r.st, LAMBDA c : c.rdx_fingerprint = rdx))
             first_seen == IF old = {} THEN secs ELSE (CHOOSE c \in old : TRUE).first_seen
         IN  Call(r, f, LAMBDA s : insert_or_replace_contact(s,
                 [rdx_fingerprint |-> rdx,
                  nostr_pubkey |-> derive_public_key_from_peer_identity(bundle.identity_key),
                  user_alias |-> user_alias,
                  signal_identity_key |-> bundle.identity_key,
                  first_seen |-> first_seen, last_updated |-> secs]))

\* SELECT ... WHERE rdx_fingerprint = ?1 OR user_alias = ?1 OR nostr_pubkey = ?1,
\* of which query_row takes the first row: SQLite answers the OR from the
\* three indexes in this order, each in rowid order.  {} is "Contact not found".
lookup_contact(s, identifier) ==
    LET by_rdx == RowsWhere(s, LAMBDA c : c.rdx_fingerprint = identifier)
        by_alias == RowsWhere(s, LAMBDA c : c.user_alias = {identifier})
        by_nostr == RowsWhere(s, LAMBDA c : c.nostr_pubkey = identifier)
    IN  IF by_rdx # {} THEN FirstRow(s, by_rdx)
        ELSE IF by_alias # {} THEN FirstRow(s, by_alias)
        ELSE FirstRow(s, by_nostr)

\* SELECT rdx_fingerprint FROM contacts WHERE user_alias = ?1, first row.
alias_owner(s, alias) ==
    {c.rdx_fingerprint : c \in FirstRow(s, RowsWhere(s, LAMBDA c : c.user_alias = {alias}))}

update_contact_alias(s, rdx, new_alias, secs) ==
    [s EXCEPT !.contacts =
        [i \in 1..Len(@) |->
            IF @[i].rdx_fingerprint = rdx
            THEN [@[i] EXCEPT !.user_alias = {new_alias}, !.last_updated = secs]
            ELSE @[i]]]

\* Variant that refuses every alias some contact already has.
assign_contact_alias_strict(r, t, identifier, new_alias, f) ==
    LET found == lookup_contact(r.st, identifier)
    IN  IF found = {} THEN Fail(r, "Storage(Contact not found)")
        ELSE LET contact == CHOOSE c \in found : TRUE
                 existing == alias_owner(r.st, new_alias)
             IN  IF existing # {}
                 THEN Fail(r, "InvalidInput(Alias is already assigned)")
                 ELSE Call(r, f, LAMBDA s : update_contact_alias(s, contact.rdx_fingerprint,
                                                                 new_alias, t \div 1000))

assign_contact_alias(r, t, identifier, new_alias, f) ==
    LET found == lookup_contact(r.st, identifier)
    IN  IF found = {} THEN Fail(r, "Storage(Contact not found)")
        ELSE LET contact == CHOOSE c \in found : TRUE
                 existing == alias_owner(r.st, new_alias)
             IN  IF existing # {} /\ existing # {contact.rdx_fingerprint}
                 THEN Fail(r, "InvalidInput(Alias is already assigned)")
                 ELSE Call(r, f, LAMBDA s : update_contact_alias(s, contact.rdx_fingerprint,
                                                                 new_alias, t \div 1000))

\* SignalBridge::add_contact_and_establish_session: the contact row is
\* written before establish_session runs and stays when that returns Err.
add_contact_and_establish_session(r, t, bundle, user_alias, f) ==
    IF ~bundle.wellformed THEN Fail(r, "InvalidInput(Failed to deserialize bundle)")
    ELSE IF bundle.identity_key = get_identity_key_pair(r.st)
    THEN Fail(r, "InvalidInput(Ignoring bundle from self)")
    ELSE LET r1 == add_contact_from_bundle(r, t, bundle, user_alias, f)
         IN  establish_session(r1, generate_identity_fingerprint_from_key(bundle.identity_key),
                               bundle, f)

\* ------------------------------------------------- encrypt and decrypt
\* Ok(contact) => contact.rdx_fingerprint, Err(_) => peer.to_string()
resolve_address(s, peer) ==
    LET found == lookup_contact(s, peer)
    IN  IF found = {} THEN peer ELSE (CHOOSE c \in found : TRUE).rdx_fingerprint

\* libsignal message_encrypt as SqliteStorage::encrypt_message calls it:
\* trust check of the session's remote identity, then save_identity and
\* store_session of the advanced session.
storage_encrypt_message(r, address, f) ==
    LET session == load_session(r.st, address)
    IN  IF ~is_trusted_identity(r.st, address, session.remote_identity)
        THEN Fail(r, "Protocol(untrusted identity)")
        ELSE Call(Call(r, f, LAMBDA u : save_identity(u, address, session.remote_identity)),
                  f, LAMBDA u : store_session(u, address, session))

\* Variant without the facade's own session check: message_encrypt reports
\* the missing session, which reaches the caller as a Protocol error.
encrypt_message_unchecked(r, peer, f) ==
    IF peer = "" THEN Fail(r, "InvalidInput(Specify a peer name)")
    ELSE LET address == resolve_address(r.st, peer)
         IN  IF ~has_session(r.st, address)
             THEN Fail(r, "Protocol(session with " \o address \o " not found)")
             ELSE storage_encrypt_message(r, address, f)

encrypt_message(r, peer, f) ==
    IF peer = "" THEN Fail(r, "InvalidInput(Specify a peer name)")
    ELSE LET address == resolve_address(r.st, peer)
         IN  IF ~has_session(r.st, address)
             THEN Fail(r, "SessionNotFound(Establish a session with " \o peer
                              \o " before sending messages)")
             ELSE storage_encrypt_message(r, address, f)

\* What decrypt_message hands its caller with Ok: the plaintext bytes.
decrypt_message_value(r) == [plaintext |-> r.ok]

\* Variant that takes the peer name as the session address.
decrypt_message_unresolved(r, peer, m, dup_ok, f) ==
    IF peer = "" THEN Fail(r, "InvalidInput(Specify a peer name)")
    ELSE IF m.kind = "empty" THEN Fail(r, "InvalidInput(Provide a message to decrypt)")
    ELSE IF m.kind = "garbage"
         THEN Fail(r, "Serialization(Provide a valid Signal Protocol message)")
         ELSE storage_decrypt_message(r, peer, m, dup_ok, f)

decrypt_message(r, peer, m, dup_ok, f) ==
    IF peer = "" THEN Fail(r, "InvalidInput(Specify a peer name)")
    ELSE IF m.kind = "empty" THEN Fail(r, "InvalidInput(Provide a message to decrypt)")
    ELSE IF m.kind = "garbage"
         THEN Fail(r, "Serialization(Provide a valid Signal Protocol message)")
         ELSE storage_decrypt_message(r, resolve_address(r.st, peer), m, dup_ok, f)

\* bundle_metadata: INSERT OR REPLACE of the singleton row (id = 1).
record_published_bundle(s, pre_key_id, signed_pre_key_id, kyber_pre_key_id, published_at) ==
    [s EXCEPT !.bundle_metadata =
        {[pre_key_id |-> pre_key_id, signed_pre_key_id |-> signed_pre_key_id,
          kyber_pre_key_id |-> kyber_pre_key_id, published_at |-> published_at]}]
get_last_published_bundle_metadata(s) == s.bundle_metadata

\* The bytes of a bundle as a peer (or this bridge) reads them back.
serialized(b) ==
    [identity_key |-> b.identity_key, wellformed |-> TRUE, pre_key_public_missing |-> FALSE,
     signed_pre_key_signature_ok |-> b.signed_pre_key_signer = b.identity_key,
     kyber_pre_key_signature_ok |-> b.kyber_pre_key_signer = b.identity_key]

\* generate_pre_key_bundle().await?, then the own identity is stored as the
\* contact with alias "self".
generate_prekey_bundle_announcement(r, t, f) ==
    LET bundle == generate_pre_key_bundle(r.st)
    IN  IF bundle = {} THEN Fail(r, "Storage")
        ELSE add_contact_from_bundle(r, t, serialized(CHOOSE b \in bundle : TRUE), {"self"}, f)

\* ------------------------------------------------------------------ actions
pre_key_vars == <<backend, now, bridge, h_rotation, h_published, h_failures, storage, settings>>
rotation_vars == <<backend, bridge, h_published, h_ops, h_failures, storage, settings>>
facade_vars == <<backend, now, h_rotation, storage, settings>>

\* Ids a caller passes to consume_pre_key: the oldest key, the newest key
\* and an id that is not in the store.
ConsumeIds == (IF DOMAIN pre_keys = {} THEN {}
               ELSE {Min(DOMAIN pre_keys), Max(DOMAIN pre_keys)}) \cup {0}

ConsumePreKey(id, f) ==
    LET r == consume_pre_key(Store, id, f)
    IN  /\ h_ops < MaxPreKeyOps
        /\ Commit(r.st)
        /\ Returned("consume_pre_key", r)
        /\ h_ops' = h_ops + 1
        /\ UNCHANGED pre_key_vars

ReplenishPreKeys(f) ==
    LET r == replenish_pre_keys(Start(Store), f)
    IN  /\ h_ops < MaxPreKeyOps
        /\ Commit(r.st)
        /\ Returned("replenish_pre_keys", r)
        /\ h_ops' = h_ops + 1
        /\ UNCHANGED pre_key_vars

\* The clock advances between operations.
Tick(d) ==
    /\ now <= (MaxNowDays - d) * DayMs
    /\ now' = now + d * DayMs
    /\ UNCHANGED <<backend, local_identity, identity_keys, sessions, pre_keys,
                   signed_pre_keys, kyber_pre_keys, bridge, last_op, last_result,
                   h_issued, h_identities, h_rotation, h_prev, h_ops, h_published, h_failures,
                   last_error, contacts, bundle_metadata, h_handshakes, storage, settings>>

RotateSignedPreKey(f) ==
    LET r == rotate_signed_pre_key(Store, get_identity_key_pair(Store), now, f)
    IN  /\ get_max_signed_pre_key_id(Store) < MaxSignedPreKeyId
        /\ Commit(r.st)
        /\ Returned("rotate_signed_pre_key", r)
        /\ h_rotation' = IF r.ok THEN [prev |-> get_max_signed_pre_key_id(Store), at |-> now]
                         ELSE h_rotation
        /\ UNCHANGED <<now, rotation_vars>>

RotateKyberPreKey(f) ==
    LET r == rotate_kyber_pre_key(Store, get_identity_key_pair(Store), now, f)
    IN  /\ get_max_kyber_pre_key_id(Store) < MaxSignedPreKeyId
        /\ Commit(r.st)
        /\ Returned("rotate_kyber_pre_key", r)
        /\ UNCHANGED <<now, h_rotation, rotation_vars>>

CleanupExpiredSignedPreKeys(f) ==
    \E expired_ids \in get_signed_pre_keys_older_than(backend, Store, cleanup_cutoff(now)) :
        LET r == cleanup_expired_signed_pre_keys(Store, expired_ids, f)
        IN  /\ Commit(r.st)
            /\ Returned("cleanup_expired_signed_pre_keys", r)
            /\ UNCHANGED <<now, h_rotation, rotation_vars>>

CleanupExpiredKyberPreKeys(f) ==
    \E expired_ids \in get_kyber_pre_keys_older_than(backend, Store, cleanup_cutoff(now)) :
        LET r == cleanup_expired_kyber_pre_keys(Store, expired_ids, f)
        IN  /\ Commit(r.st)
            /\ Returned("cleanup_expired_kyber_pre_keys", r)
            /\ UNCHANGED <<now, h_rotation, rotation_vars>>

\* The events the facade specification budgets.
Events == h_ops + h_failures + Cardinality(h_published)
Budget(f) == f # 0 => Events < MaxEvents

\* SignalBridge::new on the database file; Err leaves no bridge.
New(reg, f) ==
    LET r == ensure_keys_exist(Start(Store), now, reg, f)
    IN  /\ bridge = "none"
        /\ Budget(f)
        /\ h_failures' = IF Failed(r, f) THEN h_failures + 1 ELSE h_failures
        /\ Commit(r.st)
        /\ Returned("new", r)
        /\ bridge' = IF r.ok THEN "open" ELSE "none"
        /\ UNCHANGED <<facade_vars, h_ops, h_published>>

\* The bridge is dropped (process exit); the database file stays.
Drop ==
    /\ bridge = "open"
    /\ bridge' = "none"
    /\ UNCHANGED <<backend, now, local_identity, identity_keys, sessions, pre_keys,
                   signed_pre_keys, kyber_pre_keys, last_op, last_result,
                   h_issued, h_identities, h_rotation, h_prev, h_ops, h_published, h_failures,
                   last_error, contacts, bundle_metadata, h_handshakes, storage, settings>>

Facade(op, r, f) ==
    /\ bridge = "open"
    /\ Budget(f)
    /\ h_failures' = IF Failed(r, f) THEN h_failures + 1 ELSE h_failures
    /\ Commit(r.st)
    /\ Returned(op, r)
    /\ UNCHANGED <<facade_vars, bridge>>

\* Bundles a caller hands to establish_session: a peer's, with valid or
\* forged signatures, bytes that do not deserialize, or one of our own.
BundleShapes == {<<TRUE, TRUE, TRUE>>, <<TRUE, FALSE, TRUE>>,
                 <<TRUE, TRUE, FALSE>>, <<FALSE, TRUE, TRUE>>}
PeerBundles ==
    {[identity_key |-> k, wellformed |-> q[1], pre_key_public_missing |-> FALSE,
      signed_pre_key_signature_ok |-> q[2], kyber_pre_key_signature_ok |-> q[3]] :
        k \in PeerIdentityKeys, q \in BundleShapes}
OwnBundles ==
    {[identity_key |-> b.identity_key, wellformed |-> TRUE, pre_key_public_missing |-> FALSE,
      signed_pre_key_signature_ok |-> b.signed_pre_key_signer = b.identity_key,
      kyber_pre_key_signature_ok |-> b.kyber_pre_key_signer = b.identity_key] :
        b \in h_published}

\* Ciphertexts a caller hands to decrypt_message.
Ciphertexts ==
    {[kind |-> "prekey", sender |-> k, bundle |-> {b}] :
        k \in PeerIdentityKeys, b \in h_published}
    \cup {[kind |-> "signal", sender |-> k, bundle |-> {}] : k \in PeerIdentityKeys}
    \cup {[kind |-> c, sender |-> None, bundle |-> {}] : c \in {"empty", "garbage"}}

EstablishSession(peer, bundle, f) ==
    /\ Facade("establish_session", establish_session(Start(Store), peer, bundle, f), f)
    /\ UNCHANGED <<h_ops, h_published>>

\* The history counts a handshake when a first-contact message is accepted.
Accepted(r, peer, m) ==
    IF r.ok /\ is_first_contact(Store, resolve_address(Store, peer), m)
    THEN LET b == CHOOSE x \in m.bundle : TRUE
             key == <<b.pre_key_id, b.pre_key>>
         IN  [r EXCEPT !.st.h_handshakes =
                 Put(@, key, IF key \in DOMAIN @ THEN @[key] + 1 ELSE 1)]
    ELSE r

DecryptMessage(peer, m, dup_ok, f) ==
    /\ Facade("decrypt_message",
              Accepted(decrypt_message(Start(Store), peer, m, dup_ok, f), peer, m), f)
    /\ UNCHANGED <<h_ops, h_published>>

EncryptMessage(peer, f) ==
    /\ Facade("encrypt_message", encrypt_message(Start(Store), peer, f), f)
    /\ UNCHANGED <<h_ops, h_published>>

GeneratePreKeyBundle ==
    LET bundle == generate_pre_key_bundle(Store)
    IN  /\ bundle \subseteq h_published \/ Events < MaxEvents
        /\ Facade("generate_pre_key_bundle", [Start(Store) EXCEPT !.ok = bundle # {}], 0)
        /\ h_published' = h_published \cup bundle
        /\ UNCHANGED h_ops

ClearPeerSession(peer, f) ==
    /\ Facade("clear_peer_session", clear_peer_session(Start(Store), peer, f), f)
    /\ UNCHANGED <<h_ops, h_published>>

ClearAllSessions(f) ==
    /\ Facade("clear_all_sessions", clear_all_sessions(Start(Store), f), f)
    /\ UNCHANGED <<h_ops, h_published>>

CleanupAllSessions(f) ==
    /\ Facade("cleanup_all_sessions", cleanup_all_sessions(Start(Store), f), f)
    /\ UNCHANGED <<h_ops, h_published>>

ResetIdentity(reg, f) ==
    /\ Events + (IF f # 0 THEN 1 ELSE 0) < MaxEvents
    /\ Facade("reset_identity", reset_identity(Start(Store), now, reg, f), f)
    /\ h_ops' = h_ops + 1
    /\ UNCHANGED h_published

\* Aliases a user types, among them one that spells a peer's nostr pubkey.
ContactAliases == {"bob", derive_public_key_from_peer_identity(Min(PeerIdentityKeys))}
AliasArgs == {{}} \cup {{a} : a \in ContactAliases}
ContactKeys == PeerIdentityKeys \cup {get_identity_key_pair(Store)}
Identifiers ==
    ContactAliases \cup {"self", "nobody"}
    \cup {generate_identity_fingerprint_from_key(k) : k \in ContactKeys}
    \cup {derive_public_key_from_peer_identity(k) : k \in ContactKeys}

\* Bundle bytes handed to add_contact_from_bundle, which reads the identity
\* key and no signature: a peer's bundle, or bytes that do not deserialize.
ContactBundles ==
    {b \in PeerBundles : b.signed_pre_key_signature_ok /\ b.kyber_pre_key_signature_ok}

\* Bytes that deserialize to a bundle whose pre_key_id is Some while its
\* pre_key_public is None.
InconsistentBundles ==
    {[b EXCEPT !.pre_key_public_missing = TRUE] : b \in {x \in ContactBundles : x.wellformed}}

AddContactFromBundle(bundle, user_alias, f) ==
    /\ Facade("add_contact_from_bundle",
              add_contact_from_bundle(Start(Store), now, bundle, user_alias, f), f)
    /\ UNCHANGED <<h_ops, h_published>>

AddContactAndEstablishSession(bundle, user_alias, f) ==
    /\ Facade("add_contact_and_establish_session",
              add_contact_and_establish_session(Start(Store), now, bundle, user_alias, f), f)
    /\ UNCHANGED <<h_ops, h_published>>

AssignContactAlias(identifier, new_alias, f) ==
    /\ Facade("assign_contact_alias",
              assign_contact_alias(Start(Store), now, identifier, new_alias, f), f)
    /\ UNCHANGED <<h_ops, h_published>>

GeneratePrekeyBundleAnnouncement(f) ==
    LET bundle == generate_pre_key_bundle(Store)
        r == generate_prekey_bundle_announcement(Start(Store), now, f)
    IN  /\ bundle \subseteq h_published \/ Events < MaxEvents
        /\ Facade("generate_prekey_bundle_announcement", r, f)
        /\ h_published' = IF r.ok THEN h_published \cup bundle ELSE h_published
        /\ UNCHANGED h_ops

\* ---------------------------------------------------------- specifications
EmptyStore ==
    [local_identity |-> NoRow, identity_keys |-> EmptyMap, sessions |-> EmptyMap,
     pre_keys |-> EmptyMap, signed_pre_keys |-> EmptyMap,
     kyber_pre_keys |-> EmptyMap, contacts |-> <<>>, bundle_metadata |-> {},
     h_issued |-> [c \in {"pre", "signed", "kyber"} |-> EmptyMap],
     h_identities |-> 0, h_handshakes |-> EmptyMap]

InitCommon(s) ==
    /\ local_identity = s.local_identity
    /\ identity_keys = s.identity_keys
    /\ sessions = s.sessions
    /\ pre_keys = s.pre_keys
    /\ signed_pre_keys = s.signed_pre_keys
    /\ kyber_pre_keys = s.kyber_pre_keys
    /\ contacts = s.contacts
    /\ bundle_metadata = s.bundle_metadata
    /\ h_issued = s.h_issued
    /\ h_identities = s.h_identities
    /\ h_handshakes = s.h_handshakes
    /\ storage = Initialized
    /\ settings = EmptyMap
    /\ now = StartDays * DayMs
    /\ bridge = "none"
    /\ last_op = "none"
    /\ last_result = "Ok"
    /\ last_error = ""
    /\ h_rotation = [prev |-> None, at |-> 0]
    /\ h_prev = Counts(s)
    /\ h_ops = 0
    /\ h_published = {}
    /\ h_failures = 0

\* A store holding the one-time pre-keys 1..n, as the tests of
\* key_rotation.rs build it with save_pre_key.
WithPreKeys(s, n) == save_pre_keys(s, 1..n)

\* consume_pre_key and replenish_pre_keys on a store of 1..n pre-keys.
InitPreKey ==
    /\ backend = "sqlite"
    /\ \E n \in InitPreKeyCounts : InitCommon(WithPreKeys(EmptyStore, n))

NextPreKey ==
    \/ \E id \in ConsumeIds, f \in FailPoints : ConsumePreKey(id, f)
    \/ \E f \in FailPoints : ReplenishPreKeys(f)

SpecPreKey == InitPreKey /\ [][NextPreKey]_vars

\* Rotation and cleanup of the signed and kyber pre-keys, on either
\* backend, starting from the store bootstrap leaves.
Bootstrapped == ensure_keys_exist(Start(EmptyStore), StartDays * DayMs, 1, 0).st

InitRotation ==
    /\ backend \in {"sqlite", "memory"}
    /\ InitCommon(Bootstrapped)

NextRotation ==
    \/ \E d \in TickDays : Tick(d)
    \/ \E f \in 0..2 : RotateSignedPreKey(f)
    \/ \E f \in 0..2 : RotateKyberPreKey(f)
    \/ \E f \in FailPoints : CleanupExpiredSignedPreKeys(f)
    \/ \E f \in FailPoints : CleanupExpiredKyberPreKeys(f)

SpecRotation == InitRotation /\ [][NextRotation]_vars

\* The SignalBridge facade on a SQLite database file that starts empty.
\* An operation of k storage calls takes its fail point from 0..k.
Init ==
    /\ backend = "sqlite"
    /\ InitCommon(EmptyStore)

Next ==
    \/ \E reg \in RegistrationIds, f \in FailPoints : New(reg, f)
    \/ Drop
    \/ \E peer \in Addresses \cup {""}, bundle \in PeerBundles \cup OwnBundles, f \in 0..2 :
           EstablishSession(peer, bundle, f)
    \/ \E peer \in Addresses \cup {""}, m \in Ciphertexts, dup_ok \in BOOLEAN, f \in 0..3 :
           DecryptMessage(peer, m, dup_ok, f)
    \/ GeneratePreKeyBundle
    \/ \E peer \in Addresses \cup {""}, f \in 0..2 : ClearPeerSession(peer, f)
    \/ \E f \in 0..2 : ClearAllSessions(f)
    \/ \E f \in 0..1 : CleanupAllSessions(f)
    \/ \E reg \in RegistrationIds, f \in FailPoints : ResetIdentity(reg, f)

Spec == Init /\ [][Next]_vars

\* The contact operations of a bridge that bootstrap has just opened.
InitContacts ==
    /\ backend = "sqlite"
    /\ InitCommon(Bootstrapped)

NextContacts ==
    \/ \E reg \in RegistrationIds : New(reg, 0)
    \/ \E bundle \in ContactBundles \cup OwnBundles, user_alias \in AliasArgs :
           AddContactFromBundle(bundle, user_alias, 0)
    \/ \E bundle \in PeerBundles \cup OwnBundles, user_alias \in AliasArgs, f \in 0..3 :
           AddContactAndEstablishSession(bundle, user_alias, f)
    \/ \E identifier \in Identifiers, new_alias \in ContactAliases :
           AssignContactAlias(identifier, new_alias, 0)
    \/ GeneratePrekeyBundleAnnouncement(0)

SpecContacts == InitContacts /\ [][NextContacts]_vars

\* Bundle generation and incoming first-contact messages on a bridge whose
\* signed and kyber pre-keys are rotated meanwhile.
InitBundle ==
    /\ backend = "sqlite"
    /\ InitCommon(Bootstrapped)

NextBundle ==
    \/ \E reg \in RegistrationIds : New(reg, 0)
    \/ \E f \in 0..2 : RotateSignedPreKey(f)
    \/ \E f \in 0..2 : RotateKyberPreKey(f)
    \/ GeneratePreKeyBundle
    \/ \E peer \in Addresses, m \in Ciphertexts, dup_ok \in BOOLEAN :
           DecryptMessage(peer, m, dup_ok, 0)
    \/ \E peer \in Addresses \cup {""}, f \in 0..2 : EncryptMessage(peer, f)

SpecBundle == InitBundle /\ [][NextBundle]_vars

\* Sessions with peers that are contacts: a peer is named by fingerprint,
\* alias or nostr pubkey when the bridge encrypts to it or clears its session.
InitPeers ==
    /\ backend = "sqlite"
    /\ InitCommon(Bootstrapped)

NextPeers ==
    \/ \E reg \in RegistrationIds : New(reg, 0)
    \/ \E bundle \in ContactBundles, user_alias \in AliasArgs :
           AddContactAndEstablishSession(bundle, user_alias, 0)
    \/ \E peer \in Identifiers \cup {""}, f \in 0..2 : EncryptMessage(peer, f)
    \/ \E peer \in Identifiers \cup {""}, f \in 0..2 : ClearPeerSession(peer, f)

SpecPeers == InitPeers /\ [][NextPeers]_vars

\* Receiving from contacts: the bridge learns of a peer from its bundle
\* announcement and the peer opens the conversation with a pre-key message.
InitReceive ==
    /\ backend = "sqlite"
    /\ InitCommon(Bootstrapped)

NextReceive ==
    \/ \E reg \in RegistrationIds : New(reg, 0)
    \/ \E bundle \in ContactBundles, user_alias \in AliasArgs :
           AddContactFromBundle(bundle, user_alias, 0)
    \/ GeneratePreKeyBundle
    \/ \E peer \in Identifiers, m \in Ciphertexts, dup_ok \in BOOLEAN :
           DecryptMessage(peer, m, dup_ok, 0)
    \/ \E peer \in Identifiers : EncryptMessage(peer, 0)

SpecReceive == InitReceive /\ [][NextReceive]_vars

\* The identity store of either backend on its own: peers' identities are
\* saved, looked up and checked for trust.
DeviceIds == {1, 2}
IdentityAddresses == {<<name, device_id>> : name \in Addresses, device_id \in DeviceIds}

IdentityStoreCall(op, s, value) ==
    /\ Commit(s)
    /\ last_op' = op
    /\ last_result' = "Ok(" \o value \o ")"
    /\ last_error' = ""
    /\ h_prev' = Counts(Store)
    /\ UNCHANGED <<backend, now, bridge, h_rotation, h_ops, h_published, h_failures,
                   storage, settings>>

SaveIdentity(address, identity_key) ==
    LET r == identity_store_save_identity(backend, Store, address, identity_key)
    IN  IdentityStoreCall("save_identity", r.st, r.change)

IsTrustedIdentity(address, identity_key) ==
    IdentityStoreCall("is_trusted_identity", Store,
        IF identity_store_is_trusted_identity(backend, Store, address, identity_key)
        THEN "true" ELSE "false")

\* Identity key pairs a caller generates and stores as the local identity.
LocalIdentityKeys == {1, 2}

SetLocalIdentityKeyPair(key) ==
    IdentityStoreCall("set_local_identity_key_pair",
        identity_store_set_local_identity_key_pair(backend, Store, key), "")

SetLocalRegistrationId(reg) ==
    IdentityStoreCall("set_local_registration_id",
        identity_store_set_local_registration_id(backend, Store, reg), "")

ClearLocalIdentity ==
    IdentityStoreCall("clear_local_identity",
        identity_store_clear_local_identity(backend, Store), "")

InitIdentity ==
    /\ backend \in {"sqlite", "memory"}
    /\ InitCommon(EmptyStore)

NextIdentity ==
    \/ \E address \in IdentityAddresses, identity_key \in PeerIdentityKeys :
           SaveIdentity(address, identity_key)
    \/ \E address \in IdentityAddresses, identity_key \in PeerIdentityKeys :
           IsTrustedIdentity(address, identity_key)
    \/ \E key \in LocalIdentityKeys : SetLocalIdentityKeyPair(key)
    \/ \E reg \in RegistrationIds : SetLocalRegistrationId(reg)
    \/ ClearLocalIdentity

SpecIdentity == InitIdentity /\ [][NextIdentity]_vars

\* The storage object of either backend: initialize, close, the drop of
\* the bridge that owns it, a new object on the same database, and the
\* settings and local identity it is used for in between.
StorageCall(op, ok, h, tbl, s) ==
    /\ storage' = h
    /\ settings' = tbl
    /\ Commit(s)
    /\ last_op' = op
    /\ last_result' = IF ok THEN "Ok" ELSE "Err"
    /\ last_error' = IF ok THEN "" ELSE "Storage"
    /\ h_prev' = Counts(Store)
    /\ UNCHANGED <<backend, now, bridge, h_rotation, h_ops, h_published, h_failures>>

Initialize ==
    /\ ~storage.dropped
    /\ StorageCall("initialize", TRUE, storage_initialize(backend, storage), settings, Store)

Close(pragma_fails) ==
    LET r == storage_close(backend, storage, pragma_fails)
    IN  /\ ~storage.dropped
        /\ StorageCall("close", r.ok, r.h, settings, Store)

DropBridge(pragma_fails) ==
    /\ backend = "sqlite" /\ ~storage.dropped
    /\ StorageCall("drop", TRUE, drop(storage, pragma_fails), settings, Store)

Reopen ==
    /\ backend = "sqlite" /\ storage.dropped
    /\ StorageCall("new", TRUE, sqlite_storage_new, settings, Store)

SetLastMessageTimestamp(timestamp) ==
    /\ backend = "sqlite" /\ ~storage.dropped
    /\ StorageCall("set_last_message_timestamp", TRUE, storage,
                   set_last_message_timestamp(settings, timestamp), Store)

StoreLocalRegistrationId(reg) ==
    /\ stores_usable(storage)
    /\ StorageCall("set_local_registration_id", TRUE, storage, settings,
                   identity_store_set_local_registration_id(backend, Store, reg))

StoreLocalIdentityKeyPair(key) ==
    /\ stores_usable(storage)
    /\ StorageCall("set_local_identity_key_pair", TRUE, storage, settings,
                   identity_store_set_local_identity_key_pair(backend, Store, key))

InitStorage ==
    /\ backend \in {"sqlite", "memory"}
    /\ InitCommon(EmptyStore)

NextStorage ==
    \/ Initialize
    \/ \E pragma_fails \in BOOLEAN : Close(pragma_fails)
    \/ \E pragma_fails \in BOOLEAN : DropBridge(pragma_fails)
    \/ Reopen
    \/ \E timestamp \in 0..MaxTimestamp : SetLastMessageTimestamp(timestamp)
    \/ \E reg \in RegistrationIds : StoreLocalRegistrationId(reg)
    \/ \E key \in LocalIdentityKeys : StoreLocalIdentityKeyPair(key)

SpecStorage == InitStorage /\ [][NextStorage]_vars

\* ------------------------------------------------------------------- claims
\* C1: whenever consume_pre_key returns successfully, the one-time pre-key
\* store holds at least MIN_PRE_KEY_COUNT keys.
C1_ConsumeKeepsMinimum ==
    (last_op = "consume_pre_key" /\ last_result = "Ok")
        => Cardinality(DOMAIN pre_keys) >= MIN_PRE_KEY_COUNT

\* consume_pre_key took the store below the minimum and refilled it.
C1_Witness ==
    /\ last_op = "consume_pre_key" /\ last_result = "Ok"
    /\ h_prev.pre = MIN_PRE_KEY_COUNT
    /\ Cardinality(DOMAIN pre_keys) = MIN_PRE_KEY_COUNT - 1 + REPLENISH_COUNT

\* C2: after bootstrap and after every later facade method that returned
\* Ok, the store holds at least MIN_PRE_KEY_COUNT one-time pre-keys.
C2_FacadeKeepsMinimum ==
    (bridge = "open" /\ last_result = "Ok")
        => Cardinality(DOMAIN pre_keys) >= MIN_PRE_KEY_COUNT

\* C3: no one-time pre-key id is given to two generated keys, over any
\* sequence of consumption and replenishment.
C3_PreKeyIdsNeverReused ==
    \A id \in DOMAIN h_issued["pre"] : h_issued["pre"][id] <= 1

\* C4: no signed or kyber pre-key id is given to two generated keys, over
\* any sequence of rotations and cleanups.
C4_RotationIdsNeverReused ==
    \A class \in {"signed", "kyber"} :
        \A id \in DOMAIN h_issued[class] : h_issued[class][id] <= 1

\* C5: the key that was current before the last rotate_signed_pre_key is
\* still stored while less than GRACE_PERIOD has passed since that rotation.
C5_PreviousKeyKeptForGracePeriod ==
    (h_rotation.prev # None /\ now - h_rotation.at < GRACE_PERIOD_SECS * 1000)
        => h_rotation.prev \in DOMAIN signed_pre_keys

\* C6: a step deletes a signed or kyber pre-key only if the key is older
\* than ROTATION_INTERVAL + GRACE_PERIOD.
C6_DeletedKeysArePastFourteenDays ==
    [][/\ \A id \in DOMAIN signed_pre_keys \ DOMAIN signed_pre_keys' :
              now - signed_pre_keys[id].timestamp
                  > (ROTATION_INTERVAL_SECS + GRACE_PERIOD_SECS) * 1000
       /\ \A id \in DOMAIN kyber_pre_keys \ DOMAIN kyber_pre_keys' :
              now - kyber_pre_keys[id].timestamp
                  > (ROTATION_INTERVAL_SECS + GRACE_PERIOD_SECS) * 1000]_vars

\* C7: a cleanup that found at least one signed (kyber) pre-key leaves at
\* least one, whether it returned Ok or Err.
C7_CleanupKeepsOneKey ==
    /\ (last_op = "cleanup_expired_signed_pre_keys" /\ h_prev.signed >= 1)
           => Cardinality(DOMAIN signed_pre_keys) >= 1
    /\ (last_op = "cleanup_expired_kyber_pre_keys" /\ h_prev.kyber >= 1)
           => Cardinality(DOMAIN kyber_pre_keys) >= 1

\* Every signed pre-key was past the cutoff; the cleanup stopped at one.
C7_Witness ==
    /\ last_op = "cleanup_expired_signed_pre_keys" /\ last_result = "Ok"
    /\ h_prev.signed >= 2
    /\ Cardinality(DOMAIN signed_pre_keys) = 1
    /\ \A id \in DOMAIN signed_pre_keys :
           signed_pre_keys[id].timestamp < cleanup_cutoff(now)

\* C8: while a bridge exists the signed and the kyber pre-key store each
\* hold at least one record.
C8_SignedAndKyberNeverEmpty ==
    bridge = "open"
        => /\ Cardinality(DOMAIN signed_pre_keys) >= 1
           /\ Cardinality(DOMAIN kyber_pre_keys) >= 1

\* C9: while a bridge exists and no storage call has failed, an address has
\* a session row exactly when it has a peer-identity row.
C9_SessionIffPeerIdentity ==
    (bridge = "open" /\ h_failures = 0) => DOMAIN sessions = DOMAIN identity_keys

\* C10: while a bridge exists the store holds a local identity.
C10_LocalIdentityStored ==
    bridge = "open" => has_identity_key_pair(Store)

\* Milliseconds that pass between two calls made in a row.
ElapsedMs == {0, 1000}
\* The contacts table without the column last_updated.
WithoutLastUpdated(s) == [i \in 1..Len(s.contacts) |-> [s.contacts[i] EXCEPT !.last_updated = 0]]
AssignableAliases == ContactAliases \cup {"self"}

\* C11: no two distinct contacts have the same non-null user_alias, whatever
\* contact operations produced the table.
C11_AliasesUnique ==
    \A i, j \in 1..Len(contacts) :
        (i # j /\ contacts[i].user_alias # {})
            => contacts[i].user_alias # contacts[j].user_alias

\* C12: assign_contact_alias(identifier, a), when a is the alias of a contact
\* other than the one identifier names, returns InvalidInput "already
\* assigned" and changes no contact row, so a lookup of a resolves as before.
C12_TakenAliasRefused ==
    bridge = "open" =>
        \A identifier \in Identifiers, a \in AssignableAliases :
            LET found == lookup_contact(Store, identifier)
                r == assign_contact_alias(Start(Store), now, identifier, a, 0)
            IN  (/\ found # {}
                 /\ \E i \in 1..Len(contacts) :
                        /\ contacts[i].user_alias = {a}
                        /\ \A c \in found : c.rdx_fingerprint # contacts[i].rdx_fingerprint)
                    => /\ ~r.ok
                       /\ r.err = "InvalidInput(Alias is already assigned)"
                       /\ r.st.contacts = contacts
                       /\ lookup_contact(r.st, a) = lookup_contact(Store, a)

\* C13: add_contact_from_bundle(bundle, alias) returns Err and changes no
\* contact row when alias is the alias of a contact whose fingerprint is not
\* the bundle's.
C13_CollidingAliasRefused ==
    bridge = "open" =>
        \A bundle \in PeerBundles \cup OwnBundles, a \in AssignableAliases :
            LET r == add_contact_from_bundle(Start(Store), now, bundle, {a}, 0)
            IN  (\E i \in 1..Len(contacts) :
                     /\ contacts[i].user_alias = {a}
                     /\ contacts[i].rdx_fingerprint
                            # generate_identity_fingerprint_from_key(bundle.identity_key))
                    => ~r.ok /\ r.st.contacts = contacts

\* C14: assign_contact_alias called twice in a row with the same
\* (identifier, alias) returns Ok both times and leaves the contacts table
\* as the first call left it.
C14_AssignIdempotent ==
    bridge = "open" =>
        \A identifier \in Identifiers, a \in AssignableAliases, d \in ElapsedMs :
            LET r1 == assign_contact_alias(Start(Store), now, identifier, a, 0)
                r2 == assign_contact_alias(Start(r1.st), now + d, identifier, a, 0)
            IN  r1.ok => r2.ok /\ r2.st.contacts = r1.st.contacts

\* C14, amended: when the identifier is the contact's fingerprint or the
\* alias being assigned and the first call returns Ok, the second returns Ok
\* too and changes no column other than last_updated.
C14_AssignIdempotentByFingerprint ==
    bridge = "open" =>
        \A identifier \in Identifiers, a \in AssignableAliases, d \in ElapsedMs :
            LET found == lookup_contact(Store, identifier)
                r1 == assign_contact_alias(Start(Store), now, identifier, a, 0)
                r2 == assign_contact_alias(Start(r1.st), now + d, identifier, a, 0)
            IN  (r1.ok /\ (identifier = a \/ \E c \in found : c.rdx_fingerprint = identifier))
                    => r2.ok /\ WithoutLastUpdated(r2.st) = WithoutLastUpdated(r1.st)

\* assign_contact_alias has just given a contact an alias through its
\* fingerprint, and the same call made again returns Ok.
C14_Witness ==
    /\ last_op = "assign_contact_alias" /\ last_result = "Ok"
    /\ \E i \in 1..Len(contacts) :
           /\ contacts[i].user_alias = {"bob"}
           /\ Len(contacts) >= 2
           /\ assign_contact_alias(Start(Store), now + 1000,
                                   contacts[i].rdx_fingerprint, "bob", 0).ok

\* C15: establish_session and add_contact_and_establish_session refuse a
\* bundle whose identity key is the local one with InvalidInput("Ignoring
\* bundle from self") and create no session, peer-identity or contact row.
C15_SelfBundleRefused ==
    bridge = "open" =>
        \A bundle \in OwnBundles, peer \in Addresses, user_alias \in AliasArgs :
            bundle.identity_key = get_identity_key_pair(Store) =>
                \A r \in {establish_session(Start(Store), peer, bundle, 0),
                          add_contact_and_establish_session(Start(Store), now, bundle,
                                                            user_alias, 0)} :
                    /\ ~r.ok
                    /\ r.err = "InvalidInput(Ignoring bundle from self)"
                    /\ r.st.sessions = sessions
                    /\ r.st.identity_keys = identity_keys
                    /\ r.st.contacts = contacts

\* The flag a caller reads in the value decrypt_message returned.
ShouldRepublishBundle(value) ==
    "should_republish_bundle" \in DOMAIN value /\ value["should_republish_bundle"]

\* C16: the value decrypt_message returns carries a should_republish_bundle
\* flag that is true exactly when the call consumed a one-time pre-key whose
\* id is the pre_key_id of a published bundle (the id bundle_metadata is to
\* hold for it).
C16_RepublishFlagReturned ==
    bridge = "open" =>
        \A peer \in Addresses, m \in Ciphertexts, dup_ok \in BOOLEAN :
            LET r == decrypt_message(Start(Store), peer, m, dup_ok, 0)
                consumed == DOMAIN pre_keys \ DOMAIN r.st.pre_keys
            IN  r.ok => (ShouldRepublishBundle(decrypt_message_value(r))
                            <=> \E k \in consumed, b \in h_published : b.pre_key_id = k)

\* The ids of a bundle or of a bundle_metadata row.
BundleIds(x) ==
    [pre_key_id |-> x.pre_key_id, signed_pre_key_id |-> x.signed_pre_key_id,
     kyber_pre_key_id |-> x.kyber_pre_key_id]

\* C17: after generate_pre_key_bundle returned Ok, the bundle_metadata row
\* holds exactly the three ids packed into the returned bundle.
C17_MetadataRecorded ==
    (last_op = "generate_pre_key_bundle" /\ last_result = "Ok")
        => {BundleIds(row) : row \in get_last_published_bundle_metadata(Store)}
               = {BundleIds(b) : b \in generate_pre_key_bundle(Store)}

\* C18: the bundle generate_pre_key_bundle returned carries the highest-id
\* signed pre-key and the highest-id kyber pre-key of the store, also after
\* rotations.
C18_BundleCarriesCurrentKeys ==
    (last_op = "generate_pre_key_bundle" /\ last_result = "Ok")
        => \A b \in generate_pre_key_bundle(Store) :
               /\ b.signed_pre_key_id = get_max_signed_pre_key_id(Store)
               /\ b.kyber_pre_key_id = get_max_kyber_pre_key_id(Store)

\* C19: a decrypt_message that returns Ok for a first-contact
\* PreKeySignalMessage built on one-time pre-key k removes key k and no
\* other key from the pre_keys table.
C19_FirstContactRemovesItsPreKey ==
    [][\A a \in DOMAIN sessions' :
           (/\ last_op' = "decrypt_message" /\ last_result' = "Ok"
            /\ sessions'[a].base # {}
            /\ (a \notin DOMAIN sessions \/ sessions[a] # sessions'[a]))
               => \A b \in sessions'[a].base :
                      /\ b.pre_key_id \in DOMAIN pre_keys
                      /\ pre_keys' = Remove(pre_keys, b.pre_key_id)
                      /\ Cardinality(DOMAIN pre_keys') = Cardinality(DOMAIN pre_keys) - 1]_vars

\* A first-contact message was accepted and took pre-key 1 of the ten.
C19_Witness ==
    /\ last_op = "decrypt_message" /\ last_result = "Ok"
    /\ h_prev.pre = BOOTSTRAP_PRE_KEY_COUNT
    /\ DOMAIN pre_keys = 2..BOOTSTRAP_PRE_KEY_COUNT
    /\ \E a \in DOMAIN sessions : sessions[a].base # {}

\* The one-time pre-key a PreKeySignalMessage was built on.
PreKeyOf(m) == LET b == CHOOSE x \in m.bundle : TRUE IN <<b.pre_key_id, b.pre_key>>

C21_EncryptWithoutSession ==
    bridge = "open" =>
        \A peer \in Identifiers :
            ~has_session(Store, resolve_address(Store, peer)) =>
                LET r == encrypt_message(Start(Store), peer, 0)
                IN  /\ ~r.ok
                    /\ r.err = "SessionNotFound(Establish a session with " \o peer
                                   \o " before sending messages)"
                    /\ r.st = Store

\* encrypt_message found no session for "nobody" while another peer has one.
C21_Witness ==
    /\ last_op = "encrypt_message" /\ last_result = "Err"
    /\ last_error = "SessionNotFound(Establish a session with nobody before sending messages)"
    /\ DOMAIN sessions # {}

\* C22: after clear_peer_session(p) returned Ok, encrypt_message(p, ..) fails,
\* for every identifier p that encrypt_message resolves: fingerprint, alias
\* or nostr pubkey.
C22_ClearedPeerCannotBeEncryptedTo ==
    bridge = "open" =>
        \A p \in Identifiers :
            LET r == clear_peer_session(Start(Store), p, 0)
            IN  r.ok => ~encrypt_message(Start(r.st), p, 0).ok

\* C23: a receiver without a session for the sender that decrypts a
\* pre-key message of that sender holds a session for it afterwards and
\* encrypt_message to the same peer succeeds; establish_session is not
\* involved.
C23_DecryptEstablishesSession ==
    bridge = "open" =>
        \A peer \in Identifiers, m \in Ciphertexts, dup_ok \in BOOLEAN :
            LET r == decrypt_message(Start(Store), peer, m, dup_ok, 0)
            IN  (/\ m.kind = "prekey"
                 /\ ~has_session(Store, resolve_address(Store, peer))
                 /\ r.ok) =>
                    /\ has_session(r.st, resolve_address(r.st, peer))
                    /\ load_session(r.st, resolve_address(r.st, peer)).remote_identity = m.sender
                    /\ encrypt_message(Start(r.st), peer, 0).ok

\* decrypt_message opened a pre-key message of a contact that is named by
\* its alias; the session of the handshake is stored and can be encrypted to.
C23_Witness ==
    /\ last_op = "decrypt_message" /\ last_result = "Ok"
    /\ \E i \in 1..Len(contacts) :
           /\ contacts[i].user_alias = {"bob"}
           /\ has_session(Store, contacts[i].rdx_fingerprint)
           /\ load_session(Store, contacts[i].rdx_fingerprint).base # {}
    /\ encrypt_message(Start(Store), "bob", 0).ok

\* C24: after reset_identity returned Ok the local identity key is a new
\* one, the session store and the peer-identity store are empty, every
\* stored one-time, signed and kyber pre-key was generated by the reset
\* (and the signed ones are signed by the new identity), and encrypt_message
\* to every peer that had a session fails.
C24_ResetLeavesNothingOfOldIdentity ==
    [][(h_ops' # h_ops /\ last_op' = "reset_identity" /\ last_result' = "Ok") =>
           /\ has_identity_key_pair(Store')
           /\ get_identity_key_pair(Store') # get_identity_key_pair(Store)
           /\ sessions' = EmptyMap
           /\ identity_keys' = EmptyMap
           /\ \A id \in DOMAIN pre_keys' : pre_keys'[id] > Issued(Store, "pre", id)
           /\ \A id \in DOMAIN signed_pre_keys' :
                  /\ signed_pre_keys'[id].material > Issued(Store, "signed", id)
                  /\ signed_pre_keys'[id].signer = get_identity_key_pair(Store')
           /\ \A id \in DOMAIN kyber_pre_keys' :
                  /\ kyber_pre_keys'[id].material > Issued(Store, "kyber", id)
                  /\ kyber_pre_keys'[id].signer = get_identity_key_pair(Store')
           /\ \A peer \in DOMAIN sessions : ~encrypt_message(Start(Store'), peer, 0).ok
      ]_vars

\* reset_identity returned Ok on a bridge that had completed a handshake
\* under the old identity: second identity, regenerated keys, no sessions.
C24_Witness ==
    /\ last_op = "reset_identity" /\ last_result = "Ok"
    /\ h_identities >= 2
    /\ h_handshakes # EmptyMap
    /\ sessions = EmptyMap /\ identity_keys = EmptyMap
    /\ \A id \in DOMAIN pre_keys : pre_keys[id] >= 2

\* C25: consume_pre_key(k) removes pre-key k and no other key and leaves
\* the material of the others alone; exactly when fewer than 50 keys remain
\* it adds the 100 keys with the ids max_id + 1 .. max_id + 100, max_id being
\* the largest remaining id (0 for an emptied store).
C25_ConsumeRemovesOneAndReplenishes ==
    \A k \in ConsumeIds :
        LET r == consume_pre_key(Store, k, 0)
            remaining == DOMAIN pre_keys \ {k}
            max_id == IF remaining = {} THEN 0 ELSE Max(remaining)
            added == IF Cardinality(remaining) < 50 THEN (max_id + 1)..(max_id + 100) ELSE {}
        IN  /\ r.ok
            /\ DOMAIN r.st.pre_keys = remaining \cup added
            /\ Cardinality(DOMAIN r.st.pre_keys) = Cardinality(remaining) + Cardinality(added)
            /\ \A x \in remaining : r.st.pre_keys[x] = pre_keys[x]

\* consume_pre_key took the oldest of 51 keys: 50 remain, with a gap at
\* id 1, and none was added.
C25_Witness ==
    /\ last_op = "consume_pre_key" /\ last_result = "Ok"
    /\ h_prev.pre = 51
    /\ DOMAIN pre_keys = 2..51

\* Clock readings within a second of the current one, and the stores the
\* rotation checks are asked about: the current one and the one left by
\* clear_all_signed_pre_keys and clear_all_kyber_pre_keys.
ClockOffsets == {0, 1, 999, 1000}
RotationStores == {Store, clear_all_kyber_pre_keys(clear_all_signed_pre_keys(Store))}
YoungestTimestamp(s, tbl) == Max({s[tbl][id].timestamp : id \in DOMAIN s[tbl]})

\* C26 as stated: signed_pre_key_needs_rotation is true exactly when the
\* store holds no signed pre-key or the youngest one (latest creation
\* timestamp) is older than ROTATION_INTERVAL, 7 days; the same for
\* kyber_pre_key_needs_rotation.
C26_NeedsRotationIffOlderThanInterval ==
    \A s \in RotationStores, d \in ClockOffsets :
        /\ signed_pre_key_needs_rotation(s, now + d) =
               (\/ DOMAIN s.signed_pre_keys = {}
                \/ (now + d) - YoungestTimestamp(s, "signed_pre_keys") > 7 * DayMs)
        /\ kyber_pre_key_needs_rotation(s, now + d) =
               (\/ DOMAIN s.kyber_pre_keys = {}
                \/ (now + d) - YoungestTimestamp(s, "kyber_pre_keys") > 7 * DayMs)

\* C26, amended: signed_pre_key_needs_rotation is true exactly when the
\* store holds no signed pre-key or the age of the youngest one, in whole
\* seconds (rounded down), exceeds ROTATION_INTERVAL, 7 days; the same for
\* kyber_pre_key_needs_rotation.
C26_NeedsRotationIffWholeSecondsExceedInterval ==
    \A s \in RotationStores, d \in ClockOffsets :
        /\ signed_pre_key_needs_rotation(s, now + d) =
               (\/ DOMAIN s.signed_pre_keys = {}
                \/ ((now + d) - YoungestTimestamp(s, "signed_pre_keys")) \div 1000
                       > 7 * 24 * 60 * 60)
        /\ kyber_pre_key_needs_rotation(s, now + d) =
               (\/ DOMAIN s.kyber_pre_keys = {}
                \/ ((now + d) - YoungestTimestamp(s, "kyber_pre_keys")) \div 1000
                       > 7 * 24 * 60 * 60)

\* A rotated store whose youngest signed pre-key is exactly 7 days old: no
\* rotation is due now nor 999 ms from now, one is due a second from now.
C26_Witness ==
    /\ Cardinality(DOMAIN signed_pre_keys) >= 2
    /\ now - YoungestTimestamp(Store, "signed_pre_keys") = 7 * DayMs
    /\ ~signed_pre_key_needs_rotation(Store, now + 999)
    /\ signed_pre_key_needs_rotation(Store, now + 1000)

\* C27: bootstrap of an empty store leaves exactly the one-time pre-keys
\* 1..10, the signed pre-key 1 and the kyber pre-key 1, each generated once;
\* as long as nothing resets the identity, consumes a pre-key or fails, the
\* inventory stays that (across sessions made and cleared, bundles handed out
\* and the bridge being dropped and opened again).
C27_BootstrapInventory ==
    (local_identity.present /\ h_ops = 0 /\ h_failures = 0 /\ h_handshakes = EmptyMap) =>
        /\ DOMAIN pre_keys = 1..10
        /\ DOMAIN signed_pre_keys = {1}
        /\ DOMAIN kyber_pre_keys = {1}
        /\ Cardinality(DOMAIN pre_keys) = 10
        /\ \A id \in DOMAIN pre_keys : pre_keys[id] = 1
        /\ signed_pre_keys[1].material = 1
        /\ kyber_pre_keys[1].material = 1

\* The bridge was opened again on the store bootstrap filled: a session
\* made in between is there, the keys are the ten, one and one of bootstrap.
C27_Witness ==
    /\ last_op = "new" /\ last_result = "Ok"
    /\ h_ops = 0 /\ h_failures = 0 /\ h_handshakes = EmptyMap
    /\ DOMAIN sessions # {}
    /\ Counts(Store) = [pre |-> 10, signed |-> 1, kyber |-> 1]

\* C28: SignalBridge::new on a store that holds a local identity leaves the
\* identity unchanged and, for each key class the store holds a key of,
\* leaves every existing record of the class unchanged, id and material.
C28_OpeningKeepsExistingKeys ==
    [][(bridge = "none" /\ bridge' = "open" /\ has_identity_key_pair(Store)) =>
           /\ local_identity' = local_identity
           /\ \A id \in DOMAIN pre_keys :
                  id \in DOMAIN pre_keys' /\ pre_keys'[id] = pre_keys[id]
           /\ \A id \in DOMAIN signed_pre_keys :
                  id \in DOMAIN signed_pre_keys' /\ signed_pre_keys'[id] = signed_pre_keys[id]
           /\ \A id \in DOMAIN kyber_pre_keys :
                  id \in DOMAIN kyber_pre_keys' /\ kyber_pre_keys'[id] = kyber_pre_keys[id]
      ]_vars

\* C29: on either backend is_trusted_identity(addr, k) is true when no
\* identity is stored for addr, true when the stored one equals k and false
\* when a different one is stored; a call of it leaves the stored
\* identities as they were.
C29_TrustOnFirstUse ==
    [][/\ \A addr \in IdentityAddresses, k \in PeerIdentityKeys :
              LET stored == identity_store_get_identity(backend, Store, addr)
              IN  identity_store_is_trusted_identity(backend, Store, addr, k) =
                      (CASE stored = None -> TRUE
                         [] stored = k -> TRUE
                         [] OTHER -> FALSE)
       /\ last_op' = "is_trusted_identity" => identity_keys' = identity_keys
      ]_vars

\* The memory backend refused an identity: another one is stored there.
C29_Witness ==
    /\ backend = "memory"
    /\ last_op = "is_trusted_identity" /\ last_result = "Ok(false)"
    /\ \E addr \in IdentityAddresses :
           /\ identity_store_get_identity(backend, Store, addr) = 101
           /\ ~identity_store_is_trusted_identity(backend, Store, addr, 102)

\* C30: on either backend save_identity(addr, k) returns ReplacedExisting
\* exactly when an identity other than k was stored for addr, and
\* NewOrUnchanged when none or k itself was stored; k is stored afterwards.
C30_ReplacedExistingIffDifferent ==
    \A addr \in IdentityAddresses, k \in PeerIdentityKeys :
        LET stored == identity_store_get_identity(backend, Store, addr)
            r == identity_store_save_identity(backend, Store, addr, k)
        IN  /\ r.change = IF stored # None /\ stored # k THEN "ReplacedExisting"
                          ELSE "NewOrUnchanged"
            /\ (r.change = "ReplacedExisting") = (stored \in PeerIdentityKeys \ {k})
            /\ identity_store_get_identity(backend, r.st, addr) = k

\* The SQLite backend replaced a peer's identity while other addresses,
\* the peer's second device among them, keep theirs.
C30_Witness ==
    /\ backend = "sqlite"
    /\ last_op = "save_identity" /\ last_result = "Ok(ReplacedExisting)"
    /\ Cardinality(DOMAIN identity_keys) >= 2

\* C31: while the local identity key pair has not been set (never written,
\* or cleared), get_identity_key_pair fails with "Local identity key pair
\* not set"; while the local registration id has not been set,
\* get_local_registration_id fails with "Local registration ID not set";
\* also when the other of the two values has been written.  A stored key
\* pair is never 0 and a stored registration id never 0 or None here.
C31_UnsetLocalIdentityIsNotSet ==
    LET key_set == local_identity.present /\ local_identity.private_key # 0
        registration_id_set ==
            local_identity.present /\ local_identity.registration_id \notin {0, None}
        key == identity_store_get_identity_key_pair(backend, Store)
        reg == identity_store_get_local_registration_id(backend, Store)
    IN  /\ ~key_set => (~key.ok /\ key.err = "Local identity key pair not set")
        /\ ~registration_id_set => (~reg.ok /\ reg.err = "Local registration ID not set")

\* C32: once close has returned Ok, a further close returns Ok and changes
\* nothing, whether or not the pragmas would fail, and so does the close
\* the drop of the bridge implies; on a store that is_closed, close is a
\* no-op.  Both backends.
C32_CloseIsIdempotent ==
    ~storage.dropped =>
        LET once == storage_close(backend, storage, FALSE)
        IN  \A pragma_fails \in BOOLEAN :
                /\ once.ok
                /\ storage_close(backend, once.h, pragma_fails) = [h |-> once.h, ok |-> TRUE]
                /\ backend = "sqlite" =>
                       drop(once.h, pragma_fails) = [once.h EXCEPT !.dropped = TRUE]
                /\ storage.is_closed =>
                       storage_close(backend, storage, pragma_fails) =
                           [h |-> storage, ok |-> TRUE]

\* close returned Ok on a store that was closed before and initialized
\* again since: it is still marked closed and its handles are untouched.
C32_Witness ==
    /\ backend = "sqlite"
    /\ last_op = "close" /\ last_result = "Ok"
    /\ storage.is_closed /\ storage.stores
    /\ local_identity.present

\* C34: the value get_last_message_timestamp returns never decreases from
\* one state to the next, whatever set_last_message_timestamp is given.
C34_WatermarkNeverDecreases ==
    [][get_last_message_timestamp(settings') >= get_last_message_timestamp(settings)]_vars

\* C33: whatever peer string, bundle bytes and ciphertext bytes a caller
\* passes, bundles that deserialize but carry a pre-key id without a
\* pre-key public key included, no facade operation panics.
C33_NoPanicOnUserInput ==
    bridge = "open" =>
        \A peer \in Identifiers \cup {""},
           bundle \in PeerBundles \cup OwnBundles \cup InconsistentBundles :
            /\ establish_session(Start(Store), peer, bundle, 0).err # "panic"
            /\ \A user_alias \in AliasArgs :
                   /\ add_contact_and_establish_session(Start(Store), now, bundle,
                                                        user_alias, 0).err # "panic"
                   /\ add_contact_from_bundle(Start(Store), now, bundle,
                                              user_alias, 0).err # "panic"
            /\ encrypt_message(Start(Store), peer, 0).err # "panic"
            /\ \A m \in Ciphertexts :
                   decrypt_message(Start(Store), peer, m, TRUE, 0).err # "panic"

\* C35: in every state of an open bridge after bootstrap, whatever pre-key
\* messages were accepted and keys rotated, generate_pre_key_bundle succeeds
\* and every key id of the bundle is in its store.
C35_BundleAlwaysAvailable ==
    bridge = "open" =>
        LET bundle == generate_pre_key_bundle(Store)
        IN  /\ bundle # {}
            /\ \A b \in bundle :
                   /\ b.pre_key_id \in DOMAIN pre_keys
                   /\ b.signed_pre_key_id \in DOMAIN signed_pre_keys
                   /\ b.kyber_pre_key_id \in DOMAIN kyber_pre_keys

\* C36: cleanup_expired_signed_pre_keys and cleanup_expired_kyber_pre_keys
\* leave the record with the highest id in the store, on either backend,
\* in whatever order the store lists the expired ids and also when every
\* key is older than the cutoff.
C36_CleanupKeepsCurrentKey ==
    /\ \A expired_ids \in get_signed_pre_keys_older_than(backend, Store, cleanup_cutoff(now)) :
           DOMAIN signed_pre_keys # {} =>
               Max(DOMAIN signed_pre_keys) \in
                   DOMAIN cleanup_expired_signed_pre_keys(Store, expired_ids, 0).st.signed_pre_keys
    /\ \A expired_ids \in get_kyber_pre_keys_older_than(backend, Store, cleanup_cutoff(now)) :
           DOMAIN kyber_pre_keys # {} =>
               Max(DOMAIN kyber_pre_keys) \in
                   DOMAIN cleanup_expired_kyber_pre_keys(Store, expired_ids, 0).st.kyber_pre_keys

\* C37: after establish_session(p, bundle) succeeded, encrypt_message(p, ..)
\* reads the session stored for p by that call and succeeds, whatever
\* contact rows with aliases and nostr pubkeys the contact table holds.
C37_EstablishThenEncrypt ==
    bridge = "open" =>
        \A p \in Identifiers, bundle \in ContactBundles :
            LET r == establish_session(Start(Store), p, bundle, 0)
            IN  r.ok => /\ resolve_address(r.st, p) = p
                        /\ encrypt_message(Start(r.st), p, 0).ok

\* C38: add_contact_and_establish_session that returns an error has added
\* or modified no contact row and created no session and no peer-identity row.
C38_AddContactAndEstablishSessionAllOrNothing ==
    bridge = "open" =>
        \A bundle \in PeerBundles \cup OwnBundles, user_alias \in AliasArgs, f \in 0..3 :
            LET r == add_contact_and_establish_session(Start(Store), now, bundle, user_alias, f)
            IN  ~r.ok => /\ r.st.contacts = contacts
                         /\ r.st.sessions = sessions
                         /\ r.st.identity_keys = identity_keys

\* C39: the contact table holds no row whose fingerprint is the fingerprint
\* of the local identity, after any sequence of facade operations,
\* generate_prekey_bundle_announcement among them.
C39_NoContactRowForLocalIdentity ==
    bridge = "open" =>
        \A i \in 1..Len(contacts) :
            contacts[i].rdx_fingerprint #
                generate_identity_fingerprint_from_key(get_identity_key_pair(Store))

\* C40: add_contact_from_bundle(bundle, None) for a contact that has an alias
\* leaves the alias in place, and a lookup by that alias that resolved to
\* the contact before still resolves to it.
C40_ReingestKeepsAlias ==
    bridge = "open" =>
        \A i \in 1..Len(contacts), bundle \in ContactBundles, alias \in ContactAliases :
            (/\ bundle.wellformed
             /\ generate_identity_fingerprint_from_key(bundle.identity_key)
                    = contacts[i].rdx_fingerprint
             /\ contacts[i].user_alias = {alias}) =>
                LET r == add_contact_from_bundle(Start(Store), now, bundle, {}, 0)
                    rdx == contacts[i].rdx_fingerprint
                IN  /\ r.ok
                    /\ \E c \in FirstRow(r.st, RowsWhere(r.st, LAMBDA c : c.rdx_fingerprint = rdx)) :
                           c.user_alias = {alias}
                    /\ (\E c \in lookup_contact(Store, alias) : c.rdx_fingerprint = rdx)
                           => \E c \in lookup_contact(r.st, alias) : c.rdx_fingerprint = rdx
====
